---------------------------- MODULE Spec2Model ----------------------------
(***************************************************************************)
(* A model of the web firmware installer widget: InstallButton             *)
(* (src/base_installer.js) and CPInstallButton (src/cpinstaller.js).       *)
(*                                                                         *)
(* The widget is single-threaded.  A handler runs until it calls the flow  *)
(* engine; the engine sets the cursor and then invokes steps[currentStep], *)
(* which is an action of its own here (pc = "step"), so that the chain     *)
(* handler -> step -> nextStep -> step ... is a sequence of transitions.   *)
(* While a chain is running no other handler starts (pc = "idle" guards    *)
(* every handler); a step body that waits for the device is split at its  *)
(* await where the events taken meanwhile matter (suspended, inflight,    *)
(* wait).                                                                  *)
(*                                                                         *)
(* Operators named after methods of the source take the widget's fields as *)
(* a record s and return the record after the method has run; s.exc says   *)
(* that an exception is propagating, s.ret holds the returned value.       *)
(***************************************************************************)
EXTENDS Integers, Sequences, FiniteSets, TLC

VARIABLES
    \* InstallButton (src/base_installer.js:15-29)
    currentFlow, currentStep, currentDialogElement, openDialogs, disabled,
    connected, device, transport, esploader, chip, baudRate,
    \* the ids that have an element in this.dialogElements, how many dialog
    \* elements were created for each id, and which of them is current
    dialogElements, created, currentSerial,
    \* CPInstallButton (src/cpinstaller.js:39-64)
    boardDefs, selectedBoardId, releaseVersion, chipFamily,
    bootloaderUrl, uf2FileUrl, binFileUrl,
    bootDriveHandle, circuitpyDriveHandle, bootDriveName, serialPortName,
    replSerialDevice, repl, reader, writer, fileCache, tomlSettings,
    \* settings.toml on the CircuitPython drive of the device
    settingsFile,
    \* position of the running chain of awaits
    pc, root,
    \* the REPL connection await by await: where _readSerialLoop stands,
    \* the await each call of onReplDisconnected stands at, and the calls
    \* made on the reader, the writer and the port
    loop, teardown, portCalls,
    \* the wait of writeSettings for an address of the restarted device
    wait,
    \* the bootloader, uf2file, binfile and chipfamily attributes of the
    \* element
    urlAttrs,
    \* the bodies of stepCredentials suspended at their await
    suspended,
    \* the body of stepCopyUf2 suspended at the fetch of its download
    inflight,
    \* locals of the copy loop of downloadAndCopy
    totalSize, bytesWritten, writes,
    \* what the environment supplied and what the last transition did
    catalog, versionAttr, last

vars == << currentFlow, currentStep, currentDialogElement, openDialogs, disabled,
           connected, device, transport, esploader, chip, baudRate,
           dialogElements, created, currentSerial,
           boardDefs, selectedBoardId, releaseVersion, chipFamily,
           bootloaderUrl, uf2FileUrl, binFileUrl,
           bootDriveHandle, circuitpyDriveHandle, bootDriveName, serialPortName,
           replSerialDevice, repl, reader, writer, fileCache, tomlSettings,
           settingsFile, pc, root, loop, teardown, portCalls, wait, urlAttrs,
           suspended, inflight,
           totalSize, bytesWritten, writes,
           catalog, versionAttr, last >>

-----------------------------------------------------------------------------
(* Bounds of the model *)

\* longest release list of a board of the catalog
MaxReleases == 3
\* most entries the file cache may hold (addCachedFile never evicts)
MaxCache == 2
\* how far below 0 advanceSteps with a negative count may take the cursor
MaxUnder == 2
\* largest blob copied, in whole chunks
MaxChunks == 6
\* most dialog elements created for one dialog id
MaxElements == 3
\* most calls of getDeviceHostInfo in one wait of writeSettings
MaxPolls == 3
\* most bodies of stepCredentials suspended at once
MaxSuspended == 2

-----------------------------------------------------------------------------
(* Program constants *)

ESP_ROM_BAUD == 115200
PREFERRED_BAUDRATE == 921600
COPY_CHUNK_SIZE == 65536
DEFAULT_RELEASE_LATEST == FALSE

Null == "null"
Undefined == "undefined"

DISCONNECTED == "Connect"
CONNECTING == "Connecting..."
CONNECTED == "Disconnect"

baudRates == {115200, 128000, 153600, 230400, 460800, 921600, 1500000, 2000000}


-----------------------------------------------------------------------------
(* Strings.  A string the code compares with < or > is a sequence of       *)
(* character codes, so that "10" < "9" is decided as JavaScript decides    *)
(* it; a string only tested for equality is a TLA+ string.                 *)

Digit(n) == 48 + n
StrAlpha == << 97, 108, 112, 104, 97 >>
StrBeta == << 98, 101, 116, 97 >>
StrRc == << 114, 99 >>
StrStable == << 115, 116, 97, 98, 108, 101 >>

\* a < b for two strings: the first differing character decides, a proper
\* prefix is smaller
RECURSIVE StrLess(_, _)
StrLess(a, b) ==
    IF b = << >> THEN FALSE
    ELSE IF a = << >> THEN TRUE
    ELSE IF Head(a) # Head(b) THEN Head(a) < Head(b)
    ELSE StrLess(Tail(a), Tail(b))

\* Number("<digits>")
RECURSIVE StrToNumber(_)
StrToNumber(a) ==
    IF a = << >> THEN 0
    ELSE 10 * StrToNumber(SubSeq(a, 1, Len(a) - 1)) + (a[Len(a)] - 48)

\* JavaScript values of the fields of a versionInfo: a string or a number
StrVal(a) == [t |-> "str", s |-> a, n |-> 0]
NumVal(k) == [t |-> "num", s |-> << >>, n |-> k]

\* x < y: two strings compare as strings, otherwise both are converted to
\* numbers (the strings met here are digit strings)
JsLess(x, y) ==
    IF x.t = "str" /\ y.t = "str" THEN StrLess(x.s, y.s)
    ELSE (IF x.t = "str" THEN StrToNumber(x.s) ELSE x.n)
             < (IF y.t = "str" THEN StrToNumber(y.s) ELSE y.n)

-----------------------------------------------------------------------------
(* Board / release resolver *)

\* A version string "major.minor.patch" or "major.minor.patch-suffix.n",
\* held as the pieces the pattern of parseVersion captures from it; suffix
\* and suffixVersion are empty when the string has no "-suffix.n" part.
VersionStr(major, minor, patch, suffix, suffixVersion) ==
    [major |-> major, minor |-> minor, patch |-> patch,
     suffix |-> suffix, suffixVersion |-> suffixVersion]

\* this.releaseVersion = 0: no version requested
NoVersion == VersionStr(<< >>, << >>, << >>, << >>, << >>)

V820 == VersionStr(<< Digit(8) >>, << Digit(2) >>, << Digit(0) >>, << >>, << >>)
V900a2 == VersionStr(<< Digit(9) >>, << Digit(0) >>, << Digit(0) >>, StrAlpha, << Digit(2) >>)
V900b1 == VersionStr(<< Digit(9) >>, << Digit(0) >>, << Digit(0) >>, StrBeta, << Digit(1) >>)
V900rc1 == VersionStr(<< Digit(9) >>, << Digit(0) >>, << Digit(0) >>, StrRc, << Digit(1) >>)
V900 == VersionStr(<< Digit(9) >>, << Digit(0) >>, << Digit(0) >>, << >>, << >>)
V1000 == VersionStr(<< Digit(1), Digit(0) >>, << Digit(0) >>, << Digit(0) >>, << >>, << >>)

Url(host, file) == [host |-> host, file |-> file]
NullUrl == Url("", "")

parseVersionNoStable(version) ==
    [major |-> StrVal(version.major), minor |-> StrVal(version.minor),
     patch |-> StrVal(version.patch),
     suffix |-> StrVal(version.suffix),
     suffixVersion |-> StrVal(version.suffixVersion)]

parseVersion(version) ==
    [major |-> StrVal(version.major), minor |-> StrVal(version.minor),
     patch |-> StrVal(version.patch),
     suffix |-> IF version.suffix # << >> /\ version.suffixVersion # << >>
                THEN StrVal(version.suffix) ELSE StrVal(StrStable),
     suffixVersion |-> IF version.suffix # << >> /\ version.suffixVersion # << >>
                       THEN StrVal(version.suffixVersion) ELSE NumVal(0)]

sortHieratchy == << "major", "minor", "patch", "suffix", "suffixVersion" >>

\* the comparator handed to Array.prototype.sort: -1, 1 or 0
RECURSIVE compareFrom(_, _, _)
compareFrom(aVersionInfo, bVersionInfo, k) ==
    IF k > Len(sortHieratchy) THEN 0
    ELSE LET sortKey == sortHieratchy[k] IN
         IF JsLess(aVersionInfo[sortKey], bVersionInfo[sortKey]) THEN -1
         ELSE IF JsLess(bVersionInfo[sortKey], aVersionInfo[sortKey]) THEN 1
         ELSE compareFrom(aVersionInfo, bVersionInfo, k + 1)

compareReleases(a, b) ==
    compareFrom(parseVersion(a.version), parseVersion(b.version), 1)

\* Array.prototype.sort is a stable sort: insertion after the last element
\* that does not compare greater
RECURSIVE insertRelease(_, _)
insertRelease(sorted, r) ==
    IF sorted = << >> THEN << r >>
    ELSE IF compareReleases(sorted[Len(sorted)], r) > 0
         THEN Append(insertRelease(SubSeq(sorted, 1, Len(sorted) - 1), r),
                     sorted[Len(sorted)])
         ELSE Append(sorted, r)

RECURSIVE sortReleases(_)
sortReleases(releases) ==
    IF releases = << >> THEN << >>
    ELSE insertRelease(sortReleases(SubSeq(releases, 1, Len(releases) - 1)),
                       releases[Len(releases)])

attrMap ==
    [bootloader |-> "bootloaderUrl", uf2file |-> "uf2FileUrl",
     binfile |-> "binFileUrl"]

updateBinaryUrl(url) ==
    IF url # NullUrl /\ url.host = "https://downloads.circuitpython.org/"
    THEN Url("https://adafruit-circuit-python.s3.amazonaws.com/", url.file)
    ELSE url

\* an empty or removed attribute is the null url
attributeChangedCallback(s, attribute, currentValue) ==
    [s EXCEPT ![attrMap[attribute]] = IF currentValue # NullUrl
                                      THEN updateBinaryUrl(currentValue)
                                      ELSE NullUrl]

\* index of the first release of the list with this version, 0 when none
RECURSIVE findRelease(_, _, _)
findRelease(sortedReleases, version, i) ==
    IF i > Len(sortedReleases) THEN 0
    ELSE IF sortedReleases[i].version = version THEN i
    ELSE findRelease(sortedReleases, version, i + 1)

\* the values of the board definitions, which are the defaults
loadBoardDefaults(s, boardId) ==
    IF boardId \in DOMAIN s.boardDefs
    THEN LET boardDef == s.boardDefs[boardId]
             sortedReleases == sortReleases(boardDef.releases)
             found == IF s.releaseVersion # NoVersion
                      THEN findRelease(sortedReleases, s.releaseVersion, 1)
                      ELSE 0
             releaseInfo == IF found # 0 THEN sortedReleases[found]
                            ELSE IF DEFAULT_RELEASE_LATEST
                                 THEN sortedReleases[Len(sortedReleases)]
                                 ELSE sortedReleases[1]
         IN  [s EXCEPT
                !.chipFamily = boardDef.chipfamily,
                !.bootloaderUrl = IF boardDef.bootloader # NullUrl
                                  THEN updateBinaryUrl(boardDef.bootloader)
                                  ELSE @,
                \* sort() sorts the board's list in place
                !.boardDefs = [@ EXCEPT ![boardId] =
                                  [@ EXCEPT !.releases = sortedReleases]],
                !.releaseVersion = IF found = 0 THEN releaseInfo.version ELSE @,
                !.uf2FileUrl = IF releaseInfo.uf2file # NullUrl
                               THEN updateBinaryUrl(releaseInfo.uf2file)
                               ELSE @,
                !.binFileUrl = IF releaseInfo.binfile # NullUrl
                               THEN updateBinaryUrl(releaseInfo.binfile)
                               ELSE @]
    ELSE s

\* the chipfamily attribute, when set, replaces the board's chip family
loadBoard(s, boardId) ==
    LET named(a) == IF a.urlAttrs.chipfamily # Null
                    THEN [a EXCEPT !.chipFamily = a.urlAttrs.chipfamily]
                    ELSE a
    IN  named(loadBoardDefaults(s, boardId))

\* "esp32c3".includes(chipFamily): the chip family is a substring of
\* "esp32c3" (the comma expression yields its last operand)
IsSubstringOfEsp32c3(family) ==
    family \in {"", "e", "s", "p", "3", "2", "c", "es", "sp", "p3", "32", "2c",
                "c3", "esp", "sp3", "p32", "32c", "2c3", "esp3", "sp32", "p32c",
                "32c3", "esp32", "sp32c", "p32c3", "esp32c", "sp32c3", "esp32c3"}

hasNativeUsb(s) ==
    IF s.chipFamily = Null \/ s.chipFamily = ""
          \/ IsSubstringOfEsp32c3(s.chipFamily)
    THEN FALSE
    ELSE TRUE


-----------------------------------------------------------------------------
(* The widget's fields as one record *)

State ==
    [currentFlow |-> currentFlow, currentStep |-> currentStep,
     currentDialogElement |-> currentDialogElement, openDialogs |-> openDialogs,
     dialogElements |-> dialogElements, created |-> created,
     currentSerial |-> currentSerial, urlAttrs |-> urlAttrs,
     disabled |-> disabled,
     connected |-> connected, device |-> device, transport |-> transport,
     esploader |-> esploader, chip |-> chip, baudRate |-> baudRate,
     boardDefs |-> boardDefs, selectedBoardId |-> selectedBoardId,
     releaseVersion |-> releaseVersion, chipFamily |-> chipFamily,
     bootloaderUrl |-> bootloaderUrl, uf2FileUrl |-> uf2FileUrl,
     binFileUrl |-> binFileUrl,
     bootDriveHandle |-> bootDriveHandle,
     circuitpyDriveHandle |-> circuitpyDriveHandle,
     bootDriveName |-> bootDriveName, serialPortName |-> serialPortName,
     replSerialDevice |-> replSerialDevice, repl |-> repl,
     reader |-> reader, writer |-> writer, fileCache |-> fileCache,
     tomlSettings |-> tomlSettings, settingsFile |-> settingsFile,
     pc |-> pc, root |-> root, last |-> last,
     exc |-> FALSE, retKind |-> "none", blob |-> Null, ret |-> Null]

\* what a transition records about itself for the properties to read
NewLast(op, s) ==
    [op |-> op,
     step |-> s.currentStep,           \* the cursor when it started
     espBound |-> s.device # Null \/ s.transport # Null,
     replBound |-> s.replSerialDevice # Null,
     hit |-> FALSE,                    \* the file cache held the filename
     fetched |-> FALSE,                \* fetch(url) was issued
     blob |-> Null,                    \* the blob downloadAndExtract returned
     fail |-> "none",                  \* data failure: "fetch", "member", "read", "erase"
     cancel |-> FALSE,                 \* a picker was dismissed
     conn |-> "none",                  \* connectivity failure: "open", "mismatch", "lost"
     erase |-> "none",                 \* connection state at eraseFlash()
     write |-> "none",                 \* connection state at writeFlash()
     arg |-> "none",                   \* the argument of runFlow, changeBaudRate
     reject |-> "none",                \* a picked folder was refused: "marker", "perm"
     close |-> "none",                 \* writableStream.close(): "ok", "failed"
     prev |-> "none",                  \* the dialog open when showDialog was called
     codec |-> "none",                 \* the branch the settings codec took: "repl", "file", "error"
     open |-> FALSE,                   \* the REPL port was open when it took it
     ret |-> "none",                   \* what writeSettings returned: "null", "undefined"
     settings |-> << >>,               \* the mapping writeSettings got, getCurrentSettings returned
     written |-> << >>,                \* the mapping the call before wrote to the file of the drive
     roundTrip |-> FALSE,              \* the call before was that write
     threw |-> FALSE]                  \* it ended with an uncaught exception

\* a handler starts: it is the root of the chain of awaits it begins
Begin(op) ==
    [State EXCEPT !.pc = "idle", !.root = op, !.last = NewLast(op, State)]

\* the engine's call of steps[currentStep] starts
BeginStep(op) == [State EXCEPT !.pc = "idle", !.last = NewLast(op, State)]

Throw(s) == [s EXCEPT !.exc = TRUE]

-----------------------------------------------------------------------------
(* Dialog registry *)

\* the keys of this.dialogs: the two of InstallButton and cpDialogs
Dialogs ==
    {"notSupported", "menu", "boardSelect", "welcome", "espSerialConnect",
     "confirm", "bootDriveSelect", "circuitpyDriveSelect", "actionWaiting",
     "actionProgress", "cpSerial", "credentials", "success", "error"}

\* the descriptors with preload: false
NotPreloaded == {"notSupported"}

\* a dialog element: the id of its descriptor and its number among the
\* elements created for that id
Element(dialog, serial) == << dialog, serial >>

\* the elements shown are those of this dialog
IsOpen(open, dialog) == \E e \in open : e[1] = dialog

\* this.currentDialogElement.close(); with no current element it is null.close()
closeDialog(s) ==
    IF s.currentDialogElement = Null THEN Throw(s)
    ELSE [s EXCEPT !.openDialogs =
                      @ \ {Element(s.currentDialogElement, s.currentSerial)},
                   !.currentDialogElement = Null,
                   !.currentSerial = 0]

\* a new element is appended to the document: the element it would remove
\* first is looked up under another id and inside the button, and is
\* never found
createDialogElement(s, dialog) ==
    [s EXCEPT !.created[dialog] = @ + 1, !.currentSerial = s.created[dialog] + 1]

\* the element of the descriptor: the stored one, else a new one, which is
\* not stored.  The result is in currentDialogElement and currentSerial.
getDialogElement(s, dialog) ==
    IF dialog \in Dialogs
    THEN IF dialog \in s.dialogElements
         THEN [s EXCEPT !.currentDialogElement = dialog, !.currentSerial = 1]
         ELSE [createDialogElement(s, dialog) EXCEPT !.currentDialogElement = dialog]
    ELSE [s EXCEPT !.currentDialogElement = Null, !.currentSerial = 0]

\* isEnabled of previousButton
previousEnabled(s) == s.currentStep > 0

\* isEnabled of the Next button of a dialog; the flows are defined below
nextEnabled(s, dialog, length) ==
    /\ s.currentStep < length - 1
    /\ dialog = "espSerialConnect" => s.connected = "Disconnect"
    /\ dialog = "cpSerial" => s.replSerialDevice # Null

\* dialogs whose button list holds previousButton
HasPreviousButton(dialog) ==
    dialog \in {"welcome", "espSerialConnect", "confirm", "cpSerial", "credentials"}

\* dialogs with a Next button that has an isEnabled function
HasNextButton(dialog) == dialog \in {"welcome", "espSerialConnect", "cpSerial"}

\* the "update" event of every button of the current dialog: a button with
\* an isEnabled function is disabled when it returns false.  length is
\* currentFlow.steps.length; with no flow the Next button's isEnabled
\* throws and the button stays as it was.
updateButtons(s, length) ==
    IF s.currentDialogElement = Null THEN s
    ELSE LET dialog == s.currentDialogElement
             previous == IF HasPreviousButton(dialog) /\ ~previousEnabled(s)
                         THEN {"Previous"} ELSE {}
             next == IF ~HasNextButton(dialog) THEN {}
                     ELSE IF s.currentFlow = Null THEN s.disabled \cap {"Next"}
                     ELSE IF nextEnabled(s, dialog, length) THEN {} ELSE {"Next"}
         IN  [s EXCEPT !.disabled = previous \cup next]

\* dialogs whose button list holds closeButton
HasCloseButton(dialog) == dialog \in {"notSupported", "menu", "success", "error"}

-----------------------------------------------------------------------------
(* Flow engine *)

flows ==
    [uf2FullProgram |->
        << "stepWelcome", "stepSerialConnect", "stepConfirm", "stepEraseAll",
           "stepBootloader", "stepSelectBootDrive", "stepCopyUf2",
           "stepSelectCpyDrive", "stepCredentials", "stepSuccess" >>,
     binFullProgram |->
        << "stepWelcome", "stepSerialConnect", "stepConfirm", "stepEraseAll",
           "stepFlashBin", "stepSetupRepl", "stepCredentials", "stepSuccess" >>,
     uf2Only |->
        << "stepWelcome", "stepSelectBootDrive", "stepCopyUf2",
           "stepSelectCpyDrive", "stepCredentials", "stepSuccess" >>,
     binOnly |->
        << "stepWelcome", "stepSerialConnect", "stepConfirm", "stepEraseAll",
           "stepFlashBin", "stepSuccess" >>,
     bootloaderOnly |->
        << "stepWelcome", "stepSerialConnect", "stepConfirm", "stepEraseAll",
           "stepBootloader", "stepSuccess" >>,
     credentialsOnlyRepl |->
        << "stepWelcome", "stepSetupRepl", "stepCredentials", "stepSuccess" >>,
     credentialsOnlyDrive |->
        << "stepWelcome", "stepSelectCpyDrive", "stepCredentials", "stepSuccess" >>]

FlowIds == DOMAIN flows

\* the label of each flow in the menu
flowLabels ==
    [uf2FullProgram |-> "Full CircuitPython [version] Install",
     binFullProgram |-> "Full CircuitPython [version] Install",
     uf2Only |-> "Install CircuitPython [version] UF2 Only",
     binOnly |-> "Install CircuitPython [version] Bin Only",
     bootloaderOnly |-> "Install Bootloader Only",
     credentialsOnlyRepl |-> "Update WiFi credentials",
     credentialsOnlyDrive |-> "Update WiFi credentials"]

\* isEnabled with a binFullProgram that does not look at the chip
isEnabledBinFullAnyChip(s, flowId) ==
    CASE flowId = "uf2FullProgram" ->
            hasNativeUsb(s) /\ s.bootloaderUrl # NullUrl /\ s.uf2FileUrl # NullUrl
      [] flowId = "binFullProgram" -> s.binFileUrl # NullUrl
      [] flowId = "uf2Only" -> hasNativeUsb(s) /\ s.uf2FileUrl # NullUrl
      [] flowId = "binOnly" -> s.binFileUrl # NullUrl
      [] flowId = "bootloaderOnly" -> hasNativeUsb(s) /\ s.bootloaderUrl # NullUrl
      [] flowId = "credentialsOnlyRepl" -> ~hasNativeUsb(s)
      [] flowId = "credentialsOnlyDrive" -> hasNativeUsb(s)

isEnabled(s, flowId) ==
    CASE flowId = "uf2FullProgram" ->
            hasNativeUsb(s) /\ s.bootloaderUrl # NullUrl /\ s.uf2FileUrl # NullUrl
      [] flowId = "binFullProgram" -> ~hasNativeUsb(s) /\ s.binFileUrl # NullUrl
      [] flowId = "uf2Only" -> hasNativeUsb(s) /\ s.uf2FileUrl # NullUrl
      [] flowId = "binOnly" -> s.binFileUrl # NullUrl
      [] flowId = "bootloaderOnly" -> hasNativeUsb(s) /\ s.bootloaderUrl # NullUrl
      [] flowId = "credentialsOnlyRepl" -> ~hasNativeUsb(s)
      [] flowId = "credentialsOnlyDrive" -> hasNativeUsb(s)

\* the flows generateMenu lists
EnabledFlows(s) == {flowId \in FlowIds : isEnabled(s, flowId)}

enabledFlowCount(s) == Cardinality(EnabledFlows(s))

\* this.currentFlow.steps.length
StepsLength(s) == Len(flows[s.currentFlow])

\* steps[currentStep], undefined outside the array
StepAt(s) ==
    IF s.currentFlow # Null /\ s.currentStep >= 0 /\ s.currentStep < StepsLength(s)
    THEN flows[s.currentFlow][s.currentStep + 1]
    ELSE Undefined

\* this.currentFlow.steps.length where a flow is current
FlowLength(s) == IF s.currentFlow = Null THEN 0 ELSE StepsLength(s)

\* showDialog without the closeDialog() of the current element
showDialogKeepsPrevious(s, dialog) ==
    LET shown(s2) ==
            IF s2.currentDialogElement = Null THEN s2
            ELSE [updateButtons(s2, FlowLength(s2)) EXCEPT
                     !.openDialogs =
                        @ \cup {Element(s2.currentDialogElement, s2.currentSerial)}]
    IN  shown([getDialogElement(s, dialog) EXCEPT !.disabled = {}])

showDialog(s, dialog) ==
    LET \* updateButtons() and showModal(), when the element was found
        shown(s2) ==
            IF s2.currentDialogElement = Null THEN s2
            ELSE [updateButtons(s2, FlowLength(s2)) EXCEPT
                     !.openDialogs =
                        @ \cup {Element(s2.currentDialogElement, s2.currentSerial)}]
        closed(s1) == shown([getDialogElement(s1, dialog) EXCEPT !.disabled = {}])
    IN  closed(IF s.currentDialogElement # Null THEN closeDialog(s) ELSE s)

showError(s) == showDialog(s, "error")

errorMsg(s) == showError(s)

showMenu(s) == showDialog(s, "menu")

updateEspConnected(s, state) ==
    IF state \in {DISCONNECTED, CONNECTING, CONNECTED}
    THEN LET s1 == [s EXCEPT !.connected = state]
         IN  updateButtons(s1, FlowLength(s1))
    ELSE s

\* the engine is about to call steps[currentStep]
Invoke(s) == [s EXCEPT !.pc = "step"]

\* runFlow without the reset of the cursor
runFlowKeepsCursor(s, flowId) ==
    IF flowId \in FlowIds
    THEN Invoke([s EXCEPT !.currentFlow = flowId, !.last.arg = flowId])
    ELSE [s EXCEPT !.last.arg = flowId]

\* flowId: the flow, or the id of the target of the event runFlow is given
runFlow(s, flowId) ==
    IF flowId \in FlowIds
    THEN Invoke([s EXCEPT !.currentFlow = flowId, !.currentStep = 0,
                          !.last.arg = flowId])
    ELSE [s EXCEPT !.last.arg = flowId]

\* nextStep without the test of currentFlow
nextStepNoFlowTest(s) ==
    IF s.currentFlow = Null \/ s.currentStep < StepsLength(s)
    THEN Invoke([s EXCEPT !.currentStep = @ + 1])
    ELSE s

nextStep(s) ==
    IF s.currentFlow = Null THEN s
    ELSE IF s.currentStep < StepsLength(s)
         THEN Invoke([s EXCEPT !.currentStep = @ + 1])
         ELSE s

prevStep(s) ==
    IF s.currentFlow = Null THEN s
    ELSE IF s.currentStep > 0
         THEN Invoke([s EXCEPT !.currentStep = @ - 1])
         ELSE s

\* advanceSteps moving the cursor by one step whatever the count
advanceStepsByOne(s, stepCount) ==
    IF s.currentFlow = Null THEN s
    ELSE IF s.currentStep <= StepsLength(s) + stepCount
         THEN Invoke([s EXCEPT !.currentStep = @ + 1])
         ELSE s

advanceSteps(s, stepCount) ==
    IF s.currentFlow = Null THEN s
    ELSE IF s.currentStep <= StepsLength(s) + stepCount
         THEN Invoke([s EXCEPT !.currentStep = @ + stepCount])
         ELSE s

-----------------------------------------------------------------------------
(* Transport adapters *)

Ports == {"portA"}

\* changeBaudRate without the test of the transport
changeBaudRateWhileBound(s, baud) ==
    IF baud \in baudRates THEN [s EXCEPT !.baudRate = baud] ELSE s

changeBaudRate(s, baud) ==
    IF baud \in baudRates
    THEN IF s.transport = Null
         THEN [s EXCEPT !.baudRate = baud]
         ELSE errorMsg(s)
    ELSE s

setBaudRateIfChipSupports(s, baud) ==
    IF baud = s.baudRate THEN s ELSE changeBaudRate(s, baud)

espDisconnectKeepsDevice(s, disconnectOk) ==
    IF s.transport # Null
    THEN IF ~disconnectOk THEN Throw(s)
         ELSE updateEspConnected(s, DISCONNECTED)
    ELSE s

\* disconnectOk: transport.disconnect() and waitForUnlock() resolve
espDisconnect(s, disconnectOk) ==
    IF s.transport # Null
    THEN IF ~disconnectOk THEN Throw(s)
         ELSE [updateEspConnected(s, DISCONNECTED)
                  EXCEPT !.transport = Null, !.device = Null, !.chip = Null]
    ELSE s

\* espConnect that creates no esploader
espConnectWithoutLoader(s, port, mainOk) ==
    IF s.device = Null /\ port = Null
    THEN Throw([s EXCEPT !.last.cancel = TRUE])
    ELSE LET s1 == IF s.device = Null
                   THEN [s EXCEPT !.device = port, !.transport = port]
                   ELSE s
         IN  IF mainOk THEN [s1 EXCEPT !.chip = "chip"]
             ELSE Throw([s1 EXCEPT !.last.conn = "open"])

\* port: the port the user picks, Null when the picker is dismissed;
\* mainOk: esploader.main() opens the port and detects the chip
espConnect(s, port, mainOk) ==
    IF s.device = Null /\ port = Null
    THEN Throw([s EXCEPT !.last.cancel = TRUE])
    ELSE LET s1 == IF s.device = Null
                   THEN [s EXCEPT !.device = port, !.transport = port]
                   ELSE s
             s2 == [s1 EXCEPT !.esploader = "esploader"]
         IN  IF mainOk THEN [s2 EXCEPT !.chip = "chip"]
             ELSE Throw([s2 EXCEPT !.last.conn = "open"])

\* releaseOk: writer.releaseLock() returns.  reader.cancel() and
\* replSerialDevice.close() are in try blocks, releaseLock() is not.
onReplDisconnected(s, releaseOk) ==
    IF s.writer # Null /\ ~releaseOk
    THEN Throw([s EXCEPT !.reader = Null])
    ELSE [s EXCEPT !.reader = Null, !.writer = Null, !.replSerialDevice = Null]

\* opened: the port is open, so that it has readable and writable streams
setupRepl(s, opened) ==
    IF s.replSerialDevice # Null
    THEN [s EXCEPT !.repl = "repl",
                   !.reader = IF opened THEN s.replSerialDevice ELSE @,
                   !.writer = IF opened THEN s.replSerialDevice ELSE @]
    ELSE s

\* The callers of onReplDisconnected that can run at the same time: a
\* connect handler, and _readSerialLoop with the catch handler of setupRepl
Callers == {"handler", "loop"}

\* writeSettings is not waiting.  pc: where the polling callback stands;
\* timer: the sleep(ms) of timeout(); ip: the address the REPL reports;
\* info: deviceInfo; polls: calls of getDeviceHostInfo; result: what
\* writeSettings returned.
NoWait ==
    [pc |-> "none", timer |-> "off", ip |-> Null, info |-> "empty",
     polls |-> 0, result |-> "none"]

\* onReplDisconnected, one run from an await to the next.  c holds the three
\* fields, the calls made so far and the await the call stands at;
\* c.at = "threw" is the exception leaving onReplDisconnected.
onReplDisconnectedPort(c) ==
    IF c.replSerialDevice # Null
    THEN [c EXCEPT !.calls.close = @ + 1, !.at = "close"]
    ELSE [c EXCEPT !.at = "done"]

onReplDisconnectedWriter(c, releaseOk) ==
    IF c.writer # Null
    THEN [c EXCEPT !.calls.release = @ + 1,
                   !.at = IF releaseOk THEN "release" ELSE "threw"]
    ELSE onReplDisconnectedPort(c)

onReplDisconnectedReader(c, releaseOk) ==
    IF c.reader # Null
    THEN [c EXCEPT !.calls.cancel = @ + 1, !.at = "cancel"]
    ELSE onReplDisconnectedWriter(c, releaseOk)

\* the awaited promise settles; a rejection of cancel() or close() is caught
onReplDisconnectedResume(c, releaseOk) ==
    CASE c.at = "cancel" ->
           onReplDisconnectedWriter([c EXCEPT !.reader = Null], releaseOk)
      [] c.at = "release" ->
           onReplDisconnectedPort([c EXCEPT !.writer = Null])
      [] c.at = "close" ->
           [c EXCEPT !.replSerialDevice = Null, !.at = "done"]

-----------------------------------------------------------------------------
(* Download / extract / copy helper *)

\* url.split("/").pop()
Filename(url) == url.file

IsZip(filename) ==
    filename \in {"tinyuf2.zip"}

addCachedFile(s, filename, blob) ==
    [s EXCEPT !.fileCache = Append(@, [filename |-> filename, blob |-> blob])]

InCache(cache, filename) ==
    \E i \in 1..Len(cache) : cache[i].filename = filename

\* file.contents of the first entry with this filename: the entries hold
\* {filename, blob} and no contents, so a hit yields undefined
getCachedFile(s, filename) ==
    IF InCache(s.fileCache, filename) THEN Undefined ELSE Null

RemoveAt(cache, i) == SubSeq(cache, 1, i - 1) \o SubSeq(cache, i + 1, Len(cache))

\* for (let file of this.fileCache): the iterator's index moves on after a
\* splice, so the entry that follows a removed one is skipped
RECURSIVE removeCachedFrom(_, _, _)
removeCachedFrom(cache, filename, i) ==
    IF i > Len(cache) THEN cache
    ELSE IF cache[i].filename = filename
         THEN removeCachedFrom(RemoveAt(cache, i), filename, i + 1)
         ELSE removeCachedFrom(cache, filename, i + 1)

removeCachedFile(s, filename) ==
    [s EXCEPT !.fileCache = removeCachedFrom(@, filename, 1)]

\* fetchOk: fetch(url) resolves.  The blob is in s.blob.
downloadFile(s, url, fetchOk) ==
    LET s1 == [s EXCEPT !.last.fetched = TRUE]
    IN  IF fetchOk
        THEN [s1 EXCEPT !.blob = Filename(url)]
        ELSE [errorMsg(s1) EXCEPT !.blob = Null, !.last.fail = "fetch"]

\* memberFound: the archive has an entry named fileToExtract.
\* retKind = "array": [filename, extracted_filename, fileBlob] with fileBlob
\* in s.blob; retKind = "undefined": the bare return.
downloadAndExtract(s, url, fileToExtract, cacheFile, env) ==
    IF url = NullUrl THEN Throw(s)      \* null.split
    ELSE
    LET filename == Filename(url)
        cached == getCachedFile(s, filename)
        s0 == [s EXCEPT !.last.hit = InCache(s.fileCache, filename)]
        \* if (cacheFile) this.addCachedFile(filename, fileBlob)
        downloaded(d) ==
            IF cacheFile THEN addCachedFile(d, filename, d.blob) ELSE d
        \* the zip branch, the progress dialog shown, on the blob fileBlob
        unzipped(s2, fileBlob) ==
            IF fileBlob = Null
            THEN Throw(s2)              \* the archive reader reads blob.size
            ELSE IF env.memberFound
                 THEN [s2 EXCEPT !.retKind = "array", !.blob = fileToExtract,
                                 !.last.blob = fileToExtract]
                 ELSE [errorMsg(s2) EXCEPT !.retKind = "undefined",
                                           !.blob = Null,
                                           !.last.fail = "member"]
        \* from the blob on: s1 is the widget with fileBlob in s1.blob
        fetched(s1) ==
            IF IsZip(filename) /\ fileToExtract # Null
            THEN unzipped(showDialog(s1, "actionProgress"), s1.blob)
            ELSE [s1 EXCEPT !.retKind = "array", !.last.blob = s1.blob]
    IN  fetched(IF cached \in {Null, Undefined}
                THEN downloaded(downloadFile(showDialog(s0, "actionProgress"),
                                             url, env.fetchOk))
                ELSE [s0 EXCEPT !.blob = cached])

\* flashOk: esploader.writeFlash() resolves
downloadAndInstall(s, url, fileToExtract, cacheFile, env) ==
    LET \* the try block around writeFlash, the progress dialog shown
        flash(b) ==
            IF b.esploader = Null
            THEN errorMsg(b)                            \* null.writeFlash, caught
            ELSE IF env.flashOk
                 THEN [b EXCEPT !.last.write = b.connected]
                 ELSE errorMsg([b EXCEPT !.last.write = b.connected])
        extracted(a) ==
            IF a.exc THEN a
            ELSE IF a.retKind = "undefined" THEN Throw(a) \* let [..] = undefined
            ELSE IF a.blob # Null
                 THEN flash(showDialog(a, "actionProgress"))
                 ELSE a
    IN  extracted(downloadAndExtract(s, url, fileToExtract, cacheFile, env))

\* downloadAndCopy without the try block around writableStream.close()
downloadAndCopyCloseEscalates(s, url, env) ==
    IF s.bootDriveHandle = Null THEN errorMsg(s)
    ELSE LET copy(b) ==
                 IF b.blob = Null THEN Throw(b)
                 ELSE IF env.closeOk THEN [b EXCEPT !.last.close = "ok"]
                 ELSE Throw([b EXCEPT !.last.close = "failed"])
             extracted(a) ==
                 IF a.exc THEN a ELSE copy(showDialog(a, "actionProgress"))
         IN  extracted(downloadAndExtract(s, url, Null, FALSE, env))

\* closeOk: writableStream.close() resolves
downloadAndCopy(s, url, env) ==
    IF s.bootDriveHandle = Null THEN errorMsg(s)
    ELSE LET copy(b) ==
                 IF b.blob = Null THEN Throw(b)         \* null.size
                 ELSE [b EXCEPT !.last.close =          \* close() is in a try
                                   IF env.closeOk THEN "ok" ELSE "failed"]
             extracted(a) ==
                 IF a.exc THEN a ELSE copy(showDialog(a, "actionProgress"))
         IN  extracted(downloadAndExtract(s, url, Null, FALSE, env))

extractBootloaderInfo(s, env) ==
    IF s.bootloaderUrl = NullUrl THEN s
    ELSE LET extracted(a) ==
                 IF a.exc THEN a
                 ELSE IF a.retKind = "undefined" THEN Throw(a)
                 ELSE IF a.blob = Null THEN Throw(a)    \* null.text()
                 ELSE removeCachedFile(
                        [a EXCEPT !.bootDriveName =
                                     IF env.nameFound THEN "FEATHERBOOT" ELSE @,
                                  !.serialPortName =
                                     IF env.serialFound THEN "Feather" ELSE @],
                        Filename(s.bootloaderUrl))
         IN  extracted(downloadAndExtract(s, s.bootloaderUrl, "tinyuf2.bin",
                                          FALSE, env))

getBootDriveName(s, env) ==
    IF s.bootDriveName # Null THEN s ELSE extractBootloaderInfo(s, env)

getSerialPortName(s, env) ==
    IF s.serialPortName # Null THEN s ELSE extractBootloaderInfo(s, env)

\* The settings: a mapping from names to string or number values
\* (StrVal, NumVal).  The file is a sequence of lines, name = "text" for a
\* string and name = text for a number.
SettingNames ==
    << "CIRCUITPY_WIFI_SSID", "CIRCUITPY_WIFI_PASSWORD",
       "CIRCUITPY_WEB_API_PASSWORD", "CIRCUITPY_WEB_API_PORT" >>

\* the names a settings file of the model can hold: the four fields of the
\* credentials form and one setting the form does not have
SettingKeys == SettingNames \o << "CIRCUITPY_WEB_INSTANCE_NAME" >>

NoFile == [exists |-> FALSE, text |-> << >>]

File(text) == [exists |-> TRUE, text |-> text]

\* String(n): the decimal digits of a number
RECURSIVE NumberToStr(_)
NumberToStr(n) ==
    IF n < 10 THEN << Digit(n) >>
    ELSE Append(NumberToStr(n \div 10), Digit(n % 10))

SettingLine(name, value) ==
    [name |-> name, quoted |-> value.t = "str",
     text |-> IF value.t = "str" THEN value.s ELSE NumberToStr(value.n)]

\* the lines of the entries of a mapping, from the i-th name on
RECURSIVE SettingLines(_, _)
SettingLines(settings, i) ==
    IF i > Len(SettingKeys) THEN << >>
    ELSE IF SettingKeys[i] \in DOMAIN settings
         THEN << SettingLine(SettingKeys[i], settings[SettingKeys[i]]) >>
                 \o SettingLines(settings, i + 1)
         ELSE SettingLines(settings, i + 1)

\* toml.stringify(settings)
tomlStringify(settings) == SettingLines(settings, 1)

\* toml.parse(text): a quoted text is a string, a bare one a number
tomlParse(text) ==
    [name \in {text[i].name : i \in 1..Len(text)} |->
        LET line == text[CHOOSE i \in 1..Len(text) : text[i].name = name]
        IN  IF line.quoted THEN StrVal(line.text)
            ELSE NumVal(StrToNumber(line.text))]

\* the text the f.write statements of writeSettings leave in the file
writeStatements(settings) == SettingLines(settings, 1)

\* readFile: the text of the file, null when it is absent or cannot be read
readFile(file, readOk) == IF file.exists /\ readOk THEN file ELSE NoFile

\* getCurrentSettings reading boot.py, as getBootDisabled does, where the
\* settings file is meant
getCurrentSettingsReadsBootPy(s, env) ==
    IF s.repl # Null
    THEN [s EXCEPT !.last.codec = "repl", !.last.open = s.writer # Null,
                   !.ret = << >>]
    ELSE IF s.circuitpyDriveHandle # Null
    THEN [s EXCEPT !.last.codec = "file", !.ret = << >>]
    ELSE [errorMsg(s) EXCEPT !.last.codec = "error", !.ret = << >>]

\* runCode returns nothing, so on the REPL branch fileContents is undefined;
\* the mapping returned is in s.ret
getCurrentSettings(s, env) ==
    LET parsed(a, fileContents) ==
            [a EXCEPT !.ret = IF fileContents.exists /\ fileContents.text # << >>
                              THEN tomlParse(fileContents.text)
                              ELSE << >>]
    IN  IF s.repl # Null
        THEN parsed([s EXCEPT !.last.codec = "repl",
                              !.last.open = s.writer # Null], NoFile)
        ELSE IF s.circuitpyDriveHandle # Null
        THEN parsed([s EXCEPT !.last.codec = "file",
                              !.last.fail = IF env.readOk THEN @ ELSE "read"],
                    readFile(s.settingsFile, env.readOk))
        ELSE [errorMsg(s) EXCEPT !.last.codec = "error", !.ret = << >>]

\* ipOk: the device reports an address before the timeout; writeOk: the
\* file of the drive can be written.  The statements reach the device when
\* serialTransmit finds a writer.
writeSettings(s, settings, env) ==
    IF s.repl # Null
    THEN [showDialog([s EXCEPT !.settingsFile =
                                 IF s.writer # Null
                                 THEN File(writeStatements(settings)) ELSE @],
                     "actionWaiting")
            EXCEPT !.last.codec = "repl", !.last.open = s.writer # Null,
                   !.last.ret = IF env.ipOk THEN "undefined" ELSE "null"]
    ELSE IF s.circuitpyDriveHandle # Null
    THEN IF env.writeOk
         THEN [s EXCEPT !.settingsFile = File(tomlStringify(settings)),
                        !.last.codec = "file", !.last.ret = "undefined"]
         ELSE Throw([s EXCEPT !.last.codec = "file"])
    ELSE [errorMsg(s) EXCEPT !.last.codec = "error", !.last.ret = "null"]

-----------------------------------------------------------------------------
(* Step functions *)

stepWelcome(s, env) == showDialog(s, "welcome")

stepSerialConnect(s, env) == showDialog(s, "espSerialConnect")

stepConfirm(s, env) == showDialog(s, "confirm")

\* eraseOk: esploader.eraseFlash() resolves
stepEraseAll(s, env) ==
    LET erase(a) ==
            IF a.esploader = Null THEN errorMsg(a)      \* null.eraseFlash, caught
            ELSE IF env.eraseOk
                 THEN [a EXCEPT !.last.erase = a.connected]
                 ELSE errorMsg([a EXCEPT !.last.erase = a.connected,
                                         !.last.fail = "erase"])
    IN  nextStep(erase(showDialog(s, "actionWaiting")))

\* espHardReset() between the two calls changes no field of the widget
stepFlashBin(s, env) ==
    IF s.binFileUrl = NullUrl THEN errorMsg(s)
    ELSE LET installed(a) == IF a.exc THEN a ELSE nextStep(a)
         IN  installed(downloadAndInstall(s, s.binFileUrl, Null, FALSE, env))

stepBootloader(s, env) ==
    IF s.bootloaderUrl = NullUrl THEN errorMsg(s)
    ELSE LET installed(a) == IF a.exc THEN a ELSE nextStep(a)
         IN  installed(downloadAndInstall(s, s.bootloaderUrl, "combined.bin",
                                          TRUE, env))

stepSelectBootDrive(s, env) ==
    LET named(a) == IF a.exc THEN a ELSE showDialog(a, "bootDriveSelect")
    IN  named(getBootDriveName(s, env))

stepSelectCpyDrive(s, env) == showDialog(s, "circuitpyDriveSelect")

stepCopyUf2(s, env) ==
    IF s.bootDriveHandle = Null THEN errorMsg(s)
    ELSE LET copied(a) == IF a.exc THEN a ELSE nextStep(a)
         IN  copied(downloadAndCopy(showDialog(s, "actionProgress"),
                                    s.uf2FileUrl, env))

\* stepCopyUf2 from its call to the fetch of downloadFile: its own progress
\* dialog and the one downloadAndExtract shows before it downloads
stepCopyUf2Starts(s) ==
    showDialog(showDialog(s, "actionProgress"), "actionProgress")

\* stepCopyUf2 from the answer of the fetch to its end, url being the
\* argument its call of downloadAndCopy was given
stepCopyUf2Ends(s, url, env) ==
    LET copied(a) == IF a.exc THEN a ELSE nextStep(a)
    IN  copied(downloadAndCopy(s, url, env))

stepSetupRepl(s, env) ==
    LET named(a) == IF a.exc THEN a ELSE showDialog(a, "cpSerial")
    IN  named(getSerialPortName(s, env))

stepCredentials(s, env) ==
    LET loaded(a) == showDialog([a EXCEPT !.tomlSettings = a.ret], "credentials")
    IN  loaded(getCurrentSettings(s, env))

\* stepSuccess going on to the next step
stepSuccessAdvances(s, env) == nextStep(showDialog(s, "success"))

stepSuccess(s, env) == showDialog(s, "success")


-----------------------------------------------------------------------------
(* Handlers *)

Dirs == {"FEATHERBOOT", "CIRCUITPY"}

\* getBootOut(dirHandle): the text of boot_out.txt, null when there is none
HasBootOut(dir) == dir = "CIRCUITPY"

\* the catch block of the second try of espToolConnectHandler
espLost(s, disconnectOk) ==
    LET s0 == [s EXCEPT !.exc = FALSE, !.last.conn = "lost"]
    IN  IF s0.transport # Null /\ ~disconnectOk
        THEN Throw(s0)
        ELSE errorMsg(updateEspConnected(s0, DISCONNECTED))

\* env.chipName: the chip esploader.main() detected
espToolConnectHandler(s, env) ==
    LET \* the second try block, after updateEspConnected(CONNECTED)
        mismatch(g) == IF g.exc THEN espLost(g, env.disconnectOk3) ELSE g
        check(e) ==
            IF e.chipFamily = env.chipName
            THEN nextStep(e)
            ELSE mismatch(espDisconnect(
                             errorMsg([e EXCEPT !.last.conn = "mismatch"]),
                             env.disconnectOk2))
        \* the first try block's outcome
        connect(d) ==
            IF d.exc
            THEN errorMsg(updateEspConnected([d EXCEPT !.exc = FALSE], DISCONNECTED))
            ELSE check(updateEspConnected(d, CONNECTED))
        disconnected(b) ==
            IF b.exc THEN b
            ELSE connect(espConnect(
                            updateEspConnected(
                               setBaudRateIfChipSupports(b, PREFERRED_BAUDRATE),
                               CONNECTING),
                            env.port, env.mainOk))
        start(a) ==
            IF a.exc THEN a ELSE disconnected(espDisconnect(a, env.disconnectOk))
    IN  start(onReplDisconnected(s, env.releaseOk))

cpSerialConnectHandler(s, env) ==
    LET request(b) ==
            IF env.port = Null
            THEN [b EXCEPT !.last.cancel = TRUE]
            ELSE nextStep(setupRepl(
                    [b EXCEPT !.replSerialDevice = env.port,
                              !.last.conn = IF env.openOk THEN @ ELSE "open"],
                    env.openOk))
        released(b) == IF b.exc THEN b ELSE request(b)
        disconnected(a) ==
            IF a.exc THEN a ELSE released(onReplDisconnected(a, env.releaseOk))
    IN  disconnected(espDisconnect(s, env.disconnectOk))

bootDriveSelectHandler(s, env) ==
    LET named(a) ==
            IF a.exc THEN a
            ELSE IF env.dir = Null THEN [a EXCEPT !.last.cancel = TRUE]
            ELSE IF a.bootDriveName # Null /\ a.bootDriveName # env.dir
                       /\ ~env.confirmOk
                 THEN a
            ELSE IF ~env.permOk THEN a
            ELSE nextStep([a EXCEPT !.bootDriveHandle = env.dir])
    IN  named(getBootDriveName(s, env))

\* the handler without the return that follows the alert about boot_out.txt
circuitpyDriveSelectHandlerNoReturn(s, env) ==
    IF env.dir = Null THEN [s EXCEPT !.last.cancel = TRUE]
    ELSE IF ~env.permOk THEN [s EXCEPT !.last.reject = "perm"]
    ELSE nextStep([s EXCEPT !.circuitpyDriveHandle = env.dir,
                            !.last.reject =
                               IF HasBootOut(env.dir) THEN @ ELSE "marker"])

circuitpyDriveSelectHandler(s, env) ==
    IF env.dir = Null THEN [s EXCEPT !.last.cancel = TRUE]
    ELSE IF ~HasBootOut(env.dir) THEN [s EXCEPT !.last.reject = "marker"]
    ELSE IF ~env.permOk THEN [s EXCEPT !.last.reject = "perm"]
    ELSE nextStep([s EXCEPT !.circuitpyDriveHandle = env.dir])

\* this.tomlSettings[settingName] = the value of the form element
saveSetting(s, settingName, form) ==
    [s EXCEPT !.tomlSettings =
        [name \in DOMAIN @ \cup {settingName} |->
            IF name = settingName THEN form[settingName] ELSE @[name]]]

saveCredentials(s, env) ==
    LET written(a) == IF a.exc THEN a ELSE nextStep(a)
        saved(a) == written(writeSettings(a, a.tomlSettings, env))
    IN  saved(saveSetting(
                saveSetting(
                  saveSetting(
                    saveSetting(s, SettingNames[1], env.form),
                    SettingNames[2], env.form),
                  SettingNames[3], env.form),
                SettingNames[4], env.form))

buttonClickHandler(s, skipBoardSelector) ==
    IF Cardinality(DOMAIN s.boardDefs) > 1
          /\ (s.selectedBoardId = Null \/ ~skipBoardSelector)
    THEN showDialog(s, "boardSelect")
    ELSE showMenu(loadBoard(s, s.selectedBoardId))

selectBoardHandler(s, selectedValue) ==
    IF selectedValue \in DOMAIN s.boardDefs
    THEN buttonClickHandler(
            closeDialog([s EXCEPT !.selectedBoardId = selectedValue]), TRUE)
    ELSE s

\* chunk = fileBlob.slice(bytesWritten, bytesWritten + COPY_CHUNK_SIZE): its size
chunkSizeUnclamped(total, written) == COPY_CHUNK_SIZE

chunkSize(total, written) ==
    IF total - written < COPY_CHUNK_SIZE THEN total - written ELSE COPY_CHUNK_SIZE


-----------------------------------------------------------------------------
(* What the environment supplies to one transition *)

\* what the user typed into the credentials form; the port field is a
\* number input, read with parseInt
Form ==
    [CIRCUITPY_WIFI_SSID |-> StrVal(<< 97 >>),
     CIRCUITPY_WIFI_PASSWORD |-> StrVal(<< 98 >>),
     CIRCUITPY_WEB_API_PASSWORD |-> StrVal(<< 99 >>),
     CIRCUITPY_WEB_API_PORT |-> NumVal(80)]

Env0 ==
    [fetchOk |-> TRUE, memberFound |-> TRUE, flashOk |-> TRUE, eraseOk |-> TRUE,
     nameFound |-> TRUE, serialFound |-> TRUE,
     port |-> Null, mainOk |-> TRUE, chipName |-> "esp32", openOk |-> TRUE,
     disconnectOk |-> TRUE, disconnectOk2 |-> TRUE, disconnectOk3 |-> TRUE,
     dir |-> Null, confirmOk |-> TRUE, permOk |-> TRUE, ipOk |-> TRUE,
     closeOk |-> TRUE, releaseOk |-> TRUE, readOk |-> TRUE, writeOk |-> TRUE,
     form |-> Form]

ChipNames == {"esp32", "esp32s2", "esp32s3"}

DownloadEnvs ==
    {[Env0 EXCEPT !.fetchOk = a, !.memberFound = b, !.flashOk = c]
        : a \in BOOLEAN, b \in BOOLEAN, c \in BOOLEAN}

InfoEnvs ==
    {[Env0 EXCEPT !.fetchOk = a, !.memberFound = b, !.nameFound = c,
                  !.serialFound = d]
        : a \in BOOLEAN, b \in BOOLEAN, c \in BOOLEAN, d \in BOOLEAN}

EspEnvs ==
    {[Env0 EXCEPT !.port = p, !.mainOk = a, !.chipName = c, !.disconnectOk = b,
                  !.disconnectOk2 = d, !.disconnectOk3 = e, !.releaseOk = f]
        : p \in Ports \cup {Null}, a \in BOOLEAN, c \in ChipNames,
          b \in BOOLEAN, d \in BOOLEAN, e \in BOOLEAN, f \in BOOLEAN}

CpEnvs ==
    {[Env0 EXCEPT !.port = p, !.openOk = a, !.disconnectOk = b, !.releaseOk = f]
        : p \in Ports \cup {Null}, a \in BOOLEAN, b \in BOOLEAN, f \in BOOLEAN}

BootDriveEnvs ==
    {[e EXCEPT !.dir = d, !.confirmOk = a, !.permOk = b]
        : e \in InfoEnvs, d \in Dirs \cup {Null}, a \in BOOLEAN, b \in BOOLEAN}

SettingsEnvs ==
    {[Env0 EXCEPT !.ipOk = a, !.readOk = b, !.writeOk = c]
        : a \in BOOLEAN, b \in BOOLEAN, c \in BOOLEAN}

CpyDriveEnvs ==
    {[Env0 EXCEPT !.dir = d, !.permOk = b] : d \in Dirs \cup {Null}, b \in BOOLEAN}

-----------------------------------------------------------------------------
(* Transitions *)

CommitWidget(r) ==
    /\ Len(r.fileCache) <= MaxCache
    /\ r.currentStep >= 0 - MaxUnder
    /\ currentFlow' = r.currentFlow
    /\ currentStep' = r.currentStep
    /\ \A d \in Dialogs : r.created[d] <= MaxElements
    /\ currentDialogElement' = r.currentDialogElement
    /\ openDialogs' = r.openDialogs
    /\ dialogElements' = r.dialogElements
    /\ created' = r.created
    /\ currentSerial' = r.currentSerial
    /\ disabled' = r.disabled
    /\ connected' = r.connected
    /\ device' = r.device
    /\ transport' = r.transport
    /\ esploader' = r.esploader
    /\ chip' = r.chip
    /\ baudRate' = r.baudRate
    /\ boardDefs' = r.boardDefs
    /\ selectedBoardId' = r.selectedBoardId
    /\ releaseVersion' = r.releaseVersion
    /\ chipFamily' = r.chipFamily
    /\ bootloaderUrl' = r.bootloaderUrl
    /\ uf2FileUrl' = r.uf2FileUrl
    /\ binFileUrl' = r.binFileUrl
    /\ bootDriveHandle' = r.bootDriveHandle
    /\ circuitpyDriveHandle' = r.circuitpyDriveHandle
    /\ bootDriveName' = r.bootDriveName
    /\ serialPortName' = r.serialPortName
    /\ replSerialDevice' = r.replSerialDevice
    /\ repl' = r.repl
    /\ reader' = r.reader
    /\ writer' = r.writer
    /\ fileCache' = r.fileCache
    /\ tomlSettings' = r.tomlSettings
    /\ settingsFile' = r.settingsFile
    /\ pc' = IF r.exc THEN "idle" ELSE r.pc
    /\ root' = IF r.exc \/ r.pc = "idle" THEN "none" ELSE r.root
    /\ last' = [r.last EXCEPT !.threw = r.exc]
    /\ UNCHANGED << totalSize, bytesWritten, writes, catalog, versionAttr,
                    loop, teardown, portCalls >>

Commit(r) ==
    CommitWidget(r) /\ UNCHANGED << wait, urlAttrs, suspended, inflight >>

Idle == pc = "idle"

\* the dialog is the current one and is open, so its controls can be used
Showing(dialog) ==
    /\ Idle
    /\ currentDialogElement = dialog
    /\ Element(dialog, currentSerial) \in openDialogs

\* a click on the install button of the page
ClickInstall ==
    /\ Idle
    /\ openDialogs = {}
    /\ \E s \in {Begin("buttonClickHandler")} :
          \E r \in {buttonClickHandler(s, FALSE)} : Commit(r)

\* the values the page gives to an image attribute: none, a file of the
\* downloads host, a file of another host
AttrUrls ==
    { NullUrl, Url("https://downloads.circuitpython.org/", "custom.bin"),
      Url("https://example.com/", "custom.bin") }

\* the page sets or removes one of the observed attributes
AttributeChanged ==
    /\ Idle
    /\ \E attribute \in DOMAIN attrMap, currentValue \in AttrUrls :
          /\ urlAttrs[attribute] # currentValue
          /\ urlAttrs' = [urlAttrs EXCEPT ![attribute] = currentValue]
          /\ \E s \in {Begin("attributeChangedCallback")} :
                \E r \in {attributeChangedCallback(s, attribute, currentValue)} :
                   CommitWidget(r)
    /\ UNCHANGED << wait, suspended, inflight >>

\* the values the page gives to the chipfamily attribute; Null: not set
ChipFamilyAttrs == {Null, "esp32c3", "esp32s3", "c3"}

\* the page sets or removes the chipfamily attribute, which is not observed
ChipfamilyAttribute ==
    /\ Idle
    /\ \E currentValue \in ChipFamilyAttrs :
          /\ urlAttrs.chipfamily # currentValue
          /\ urlAttrs' = [urlAttrs EXCEPT !.chipfamily = currentValue]
    /\ \E s \in {Begin("setAttribute")} : CommitWidget(s)
    /\ UNCHANGED << wait, suspended, inflight >>

SelectBoardHandler ==
    /\ Showing("boardSelect")
    /\ \E value \in DOMAIN boardDefs :
          \E s \in {Begin("selectBoardHandler")} :
             \E r \in {selectBoardHandler(s, value)} : Commit(r)

\* a click on an entry of the menu, which lists the enabled flows
RunFlow ==
    /\ Showing("menu")
    /\ \E flowId \in FlowIds :
          /\ isEnabled(State, flowId)
          /\ \E s \in {Begin("runFlow")} :
                \E r \in {runFlow(s, flowId)} : Commit(r)

\* a click on one of the two entries of the menu that update the credentials
RunCredentialsFlow ==
    /\ Showing("menu")
    /\ \E flowId \in {"credentialsOnlyRepl", "credentialsOnlyDrive"} :
          /\ isEnabled(State, flowId)
          /\ \E s \in {Begin("runFlow")} :
                \E r \in {runFlow(s, flowId)} : Commit(r)

\* a click in the menu on an element whose id is not the id of a flow
RunFlowOtherTarget ==
    /\ Showing("menu")
    /\ \E s \in {Begin("runFlow")} :
          \E r \in {runFlow(s, "other")} : Commit(r)

\* a button of the current dialog can be clicked
Clickable(dialogs, label) ==
    /\ Idle
    /\ currentDialogElement \in dialogs
    /\ Element(currentDialogElement, currentSerial) \in openDialogs
    /\ label \notin disabled

\* previousButton
PreviousButton ==
    /\ Clickable({"welcome", "espSerialConnect", "confirm", "cpSerial",
                  "credentials"}, "Previous")
    /\ \E s \in {Begin("prevStep")} :
          \E r \in {prevStep(s)} : Commit(r)

\* nextButton, the Next buttons of the two connect dialogs and Continue
NextButton ==
    /\ Clickable({"welcome", "espSerialConnect", "cpSerial", "confirm"}, "Next")
    /\ \E s \in {Begin("nextStep")} :
          \E r \in {nextStep(s)} : Commit(r)

\* Skip Erase, when the user confirms
SkipErase ==
    /\ Clickable({"confirm"}, "Skip Erase")
    /\ \E s \in {Begin("advanceSteps")} :
          \E r \in {advanceSteps(s, 2)} : Commit(r)

\* the methods of the element called by a script of the page
NextStep == Idle /\ \E s \in {Begin("nextStep")} :
                       \E r \in {nextStep(s)} : Commit(r)

PrevStep == Idle /\ \E s \in {Begin("prevStep")} :
                       \E r \in {prevStep(s)} : Commit(r)

StepCounts == {-1, 1, 2}

AdvanceSteps ==
    /\ Idle
    /\ \E stepCount \in StepCounts :
          \E s \in {Begin("advanceSteps")} :
             \E r \in {advanceSteps(s, stepCount)} : Commit(r)

\* closeButton
CloseDialog ==
    /\ Idle
    /\ currentDialogElement # Null
    /\ Element(currentDialogElement, currentSerial) \in openDialogs
    /\ HasCloseButton(currentDialogElement)
    /\ \E s \in {Begin("closeDialog")} :
          \E r \in {closeDialog(s)} : Commit(r)

\* the dialog element's own close control (or Esc): dialogElement.close()
DismissDialog ==
    /\ Idle
    /\ Element(currentDialogElement, currentSerial) \in openDialogs
    /\ \E s \in {Begin("dismiss")} :
          \E r \in {[s EXCEPT !.openDialogs =
                               @ \ {Element(currentDialogElement, currentSerial)}]} :
             Commit(r)

EspToolConnectHandler ==
    /\ Showing("espSerialConnect")
    /\ \E s \in {Begin("espToolConnectHandler")} :
          \E r \in {espToolConnectHandler(s, env) : env \in EspEnvs} : Commit(r)

CpSerialConnectHandler ==
    /\ Showing("cpSerial")
    /\ \E s \in {Begin("cpSerialConnectHandler")} :
          \E r \in {cpSerialConnectHandler(s, env) : env \in CpEnvs} :
             Commit(r)

BootDriveSelectHandler ==
    /\ Showing("bootDriveSelect")
    /\ \E s \in {Begin("bootDriveSelectHandler")} :
          \E r \in {bootDriveSelectHandler(s, env) : env \in BootDriveEnvs} :
             Commit(r)

CircuitpyDriveSelectHandler ==
    /\ Showing("circuitpyDriveSelect")
    /\ \E s \in {Begin("circuitpyDriveSelectHandler")} :
          \E r \in {circuitpyDriveSelectHandler(s, env) : env \in CpyDriveEnvs} :
             Commit(r)

SaveCredentials ==
    /\ Showing("credentials")
    /\ \E s \in {Begin("saveCredentials")} :
          \E r \in {saveCredentials(s, env) : env \in SettingsEnvs} :
             Commit(r)

\* The settings codec and the two adapters it chooses between, called by a
\* script of the page
SettingValues == {StrVal(<< >>), StrVal(<< Digit(8), Digit(0) >>), NumVal(80)}

SettingsInputs ==
    UNION {[names -> SettingValues]
              : names \in SUBSET {SettingNames[1], SettingNames[4]}}

\* the settings files a device holds when it is plugged in
DeviceSettings ==
    { [CIRCUITPY_WEB_INSTANCE_NAME |-> StrVal(<< 100 >>)],
      [CIRCUITPY_WIFI_SSID |-> StrVal(<< 101 >>),
       CIRCUITPY_WEB_INSTANCE_NAME |-> NumVal(7)],
      [CIRCUITPY_WIFI_SSID |-> StrVal(<< 101 >>)] }

\* the device is plugged in with a settings file its owner wrote
DeviceSettingsFile ==
    /\ Idle
    /\ settingsFile = NoFile
    /\ repl = Null
    /\ circuitpyDriveHandle = Null
    /\ \E settings \in DeviceSettings :
          \E s \in {[Begin("plug") EXCEPT
                        !.settingsFile = File(tomlStringify(settings))]} :
             Commit(s)

PickCircuitpyDrive ==
    /\ Idle
    /\ \E s \in {Begin("circuitpyDriveSelectHandler")} :
          \E r \in {circuitpyDriveSelectHandler(s, env) : env \in CpyDriveEnvs} :
             Commit(r)

ConnectRepl ==
    /\ Idle
    /\ \E s \in {Begin("cpSerialConnectHandler")} :
          \E r \in {cpSerialConnectHandler(s, env) : env \in CpEnvs} :
             Commit(r)

WriteSettings ==
    /\ Idle
    /\ \E settings \in SettingsInputs :
          \E s \in {[Begin("writeSettings") EXCEPT !.last.settings = settings]} :
             \E r \in {writeSettings(s, settings, env) : env \in SettingsEnvs} :
                Commit(r)

GetCurrentSettings ==
    /\ Idle
    /\ \E s \in {[Begin("getCurrentSettings") EXCEPT
                     !.last.written = last.settings,
                     !.last.roundTrip = /\ last.op = "writeSettings"
                                        /\ last.codec = "file"
                                        /\ ~last.threw]} :
          \E r \in {getCurrentSettings(s, env) : env \in SettingsEnvs} :
             Commit([r EXCEPT !.last.settings = r.ret])

\* _readSerialLoop from the read() that reports done: its call of
\* onReplDisconnected and, when that throws, the call made by the catch
\* handler setupRepl attached to the loop
readSerialLoopDone(s, releaseOk, releaseOk2) ==
    LET caught(a) ==
            IF a.exc THEN onReplDisconnected([a EXCEPT !.exc = FALSE], releaseOk2)
            ELSE a
    IN  caught(onReplDisconnected(s, releaseOk))

\* the read loop of the REPL port ends: read() reports done or rejects
ReadSerialLoopEnds ==
    /\ Idle
    /\ reader # Null
    /\ \E ok \in BOOLEAN, ok2 \in BOOLEAN :
          \E s \in {Begin("readSerialLoop")} :
             \E r \in {readSerialLoopDone(s, ok, ok2)} : Commit(r)

\* the methods of the dialog registry called by a script of the page
ShowDialog ==
    /\ Idle
    /\ \E dialog \in Dialogs \cup {"other"} :
          \E s \in {[Begin("showDialog") EXCEPT
                        !.last.arg = dialog,
                        !.last.prev =
                           IF Element(currentDialogElement, currentSerial)
                                 \in openDialogs
                           THEN currentDialogElement ELSE "none"]} :
             \E r \in {showDialog(s, dialog)} : Commit(r)

\* a click on the button where Web Serial is not supported
ShowNotSupported ==
    /\ Idle
    /\ \E s \in {Begin("showNotSupported")} :
          \E r \in {showDialog(s, "notSupported")} : Commit(r)

CloseDialogCall ==
    /\ Idle
    /\ \E s \in {Begin("closeDialog")} :
          \E r \in {closeDialog(s)} : Commit(r)

\* the methods of the bootloader adapter called by a script of the page
BaudInputs == baudRates \cup {9600}

EspConnect ==
    /\ Idle
    /\ \E port \in Ports \cup {Null}, mainOk \in BOOLEAN :
          \E s \in {Begin("espConnect")} :
             \E r \in {espConnect(s, port, mainOk)} : Commit(r)

EspDisconnect ==
    /\ Idle
    /\ \E ok \in BOOLEAN :
          \E s \in {Begin("espDisconnect")} :
             \E r \in {espDisconnect(s, ok)} : Commit(r)

ChangeBaudRate ==
    /\ Idle
    /\ \E baud \in BaudInputs :
          \E s \in {[Begin("changeBaudRate") EXCEPT !.last.arg = baud]} :
             \E r \in {changeBaudRate(s, baud)} : Commit(r)

SetBaudRateIfChipSupports ==
    /\ Idle
    /\ \E baud \in BaudInputs :
          \E s \in {[Begin("setBaudRateIfChipSupports") EXCEPT !.last.arg = baud]} :
             \E r \in {setBaudRateIfChipSupports(s, baud)} : Commit(r)

\* an exception that leaves a chain begun by espToolConnectHandler reaches
\* the catch block around its nextStep()
Finish(r, env) ==
    IF r.exc /\ root = "espToolConnectHandler"
    THEN espLost(r, env.disconnectOk3)
    ELSE r

\* the engine calls steps[currentStep], which is the step function name
Calls(name) ==
    /\ pc = "step"
    /\ StepAt(State) = name

StepWelcome ==
    /\ Calls("stepWelcome")
    /\ \E s \in {BeginStep("stepWelcome")} :
          \E r \in {Finish(stepWelcome(s, Env0), Env0)} : Commit(r)

StepSerialConnect ==
    /\ Calls("stepSerialConnect")
    /\ \E s \in {BeginStep("stepSerialConnect")} :
          \E r \in {Finish(stepSerialConnect(s, Env0), Env0)} : Commit(r)

StepConfirm ==
    /\ Calls("stepConfirm")
    /\ \E s \in {BeginStep("stepConfirm")} :
          \E r \in {Finish(stepConfirm(s, Env0), Env0)} : Commit(r)

StepEraseAll ==
    /\ Calls("stepEraseAll")
    /\ \E ok \in BOOLEAN :
          LET env == [Env0 EXCEPT !.eraseOk = ok]
          IN  \E s \in {BeginStep("stepEraseAll")} :
                 \E r \in {Finish(stepEraseAll(s, env), env)} : Commit(r)

StepFlashBin ==
    /\ Calls("stepFlashBin")
    /\ \E s \in {BeginStep("stepFlashBin")} :
          \E r \in {Finish(stepFlashBin(s, env), env) : env \in DownloadEnvs} :
             Commit(r)

StepBootloader ==
    /\ Calls("stepBootloader")
    /\ \E s \in {BeginStep("stepBootloader")} :
          \E r \in {Finish(stepBootloader(s, env), env) : env \in DownloadEnvs} :
             Commit(r)

StepSelectBootDrive ==
    /\ Calls("stepSelectBootDrive")
    /\ \E s \in {BeginStep("stepSelectBootDrive")} :
          \E r \in {Finish(stepSelectBootDrive(s, env), env) : env \in InfoEnvs} :
             Commit(r)

StepCopyUf2 ==
    /\ Calls("stepCopyUf2")
    /\ \E s \in {BeginStep("stepCopyUf2")} :
          \E r \in {Finish(stepCopyUf2(s, [env EXCEPT !.closeOk = ok]), env)
                       : env \in DownloadEnvs, ok \in BOOLEAN} :
             Commit(r)

StepSelectCpyDrive ==
    /\ Calls("stepSelectCpyDrive")
    /\ \E s \in {BeginStep("stepSelectCpyDrive")} :
          \E r \in {Finish(stepSelectCpyDrive(s, Env0), Env0)} : Commit(r)

StepSetupRepl ==
    /\ Calls("stepSetupRepl")
    /\ \E s \in {BeginStep("stepSetupRepl")} :
          \E r \in {Finish(stepSetupRepl(s, env), env) : env \in InfoEnvs} :
             Commit(r)

StepCredentials ==
    /\ Calls("stepCredentials")
    /\ \E s \in {BeginStep("stepCredentials")} :
          \E r \in {Finish(stepCredentials(s, env), env) : env \in SettingsEnvs} :
             Commit(r)

StepSuccess ==
    /\ Calls("stepSuccess")
    /\ \E s \in {BeginStep("stepSuccess")} :
          \E r \in {Finish(stepSuccess(s, Env0), Env0)} : Commit(r)

\* stepCredentials is called and runs to its await of getCurrentSettings(),
\* which has sent its code to the REPL or started to read the file: the
\* body is suspended, the dialog of the step before stays open and the
\* event loop takes the next click
StepCredentialsSuspends ==
    /\ Calls("stepCredentials")
    /\ repl # Null \/ circuitpyDriveHandle # Null
    /\ suspended < MaxSuspended
    /\ suspended' = suspended + 1
    /\ \E s \in {BeginStep("stepCredentials")} : CommitWidget(s)
    /\ UNCHANGED << wait, urlAttrs, inflight >>

\* the REPL or the file answers: a suspended body of stepCredentials goes
\* on from its await to its end
StepCredentialsResumes ==
    /\ Idle
    /\ suspended > 0
    /\ suspended' = suspended - 1
    /\ \E s \in {BeginStep("resume")} :
          \E r \in {stepCredentials(s, env) : env \in SettingsEnvs} :
             CommitWidget(r)
    /\ UNCHANGED << wait, urlAttrs, inflight >>

\* no download is in flight
NoDownload == [step |-> "none", url |-> NullUrl, superseded |-> FALSE]

\* stepCopyUf2 is called with a boot drive and an image to copy and runs to
\* the fetch of downloadFile: the body is suspended under the progress
\* dialog and the event loop takes the next event
StepCopyUf2Suspends ==
    /\ Calls("stepCopyUf2")
    /\ bootDriveHandle # Null
    /\ uf2FileUrl # NullUrl
    /\ inflight = NoDownload
    /\ inflight' = [step |-> "stepCopyUf2", url |-> uf2FileUrl,
                    superseded |-> FALSE]
    /\ \E s \in {BeginStep("stepCopyUf2")} :
          \E r \in {stepCopyUf2Starts(s)} : CommitWidget(r)
    /\ UNCHANGED << wait, urlAttrs, suspended >>

\* the fetch answers: the suspended body of stepCopyUf2 goes on to its end
StepCopyUf2Resumes ==
    /\ Idle
    /\ inflight.step = "stepCopyUf2"
    /\ inflight' = NoDownload
    /\ \E s \in {BeginStep("resume")} :
          \E r \in {stepCopyUf2Ends(s, inflight.url, [env EXCEPT !.closeOk = ok])
                       : env \in DownloadEnvs, ok \in BOOLEAN} :
             CommitWidget(r)
    /\ UNCHANGED << wait, urlAttrs, suspended >>

\* a click on one of the two entries of the menu that need no serial port;
\* a download still in flight belongs to the run this click ends
RunDriveFlow ==
    /\ Showing("menu")
    /\ \E flowId \in {"uf2Only", "credentialsOnlyDrive"} :
          /\ isEnabled(State, flowId)
          /\ \E s \in {Begin("runFlow")} :
                \E r \in {runFlow(s, flowId)} : CommitWidget(r)
    /\ inflight' = IF inflight.step = "none" THEN inflight
                   ELSE [inflight EXCEPT !.superseded = TRUE]
    /\ UNCHANGED << wait, urlAttrs, suspended >>

\* steps[currentStep] is undefined: undefined.bind throws a TypeError
InvokeUndefined ==
    /\ Calls(Undefined)
    /\ \E ok \in BOOLEAN :
          \E s \in {BeginStep("undefined")} :
             \E r \in {Finish(Throw(s), [Env0 EXCEPT !.disconnectOk3 = ok])} : Commit(r)

StepNames ==
    {"stepWelcome", "stepSerialConnect", "stepConfirm", "stepEraseAll",
     "stepFlashBin", "stepBootloader", "stepSelectBootDrive", "stepCopyUf2",
     "stepSelectCpyDrive", "stepSetupRepl", "stepCredentials", "stepSuccess"}

InvokeStep ==
    \/ StepWelcome \/ StepSerialConnect \/ StepConfirm \/ StepEraseAll
    \/ StepFlashBin \/ StepBootloader \/ StepSelectBootDrive \/ StepCopyUf2
    \/ StepSelectCpyDrive \/ StepSetupRepl \/ StepCredentials \/ StepSuccess


-----------------------------------------------------------------------------
(* The copy loop of downloadAndCopy, one iteration at a time *)

\* writableStream.write(chunk, {position: bytesWritten, size: chunk.size})
CopyChunk ==
    /\ pc = "copy"
    /\ bytesWritten < totalSize
    /\ LET size == chunkSize(totalSize, bytesWritten)
       IN  /\ writes' = Append(writes, [position |-> bytesWritten, size |-> size])
           /\ bytesWritten' = bytesWritten + size
    /\ last' = [last EXCEPT !.op = "write"]
    /\ UNCHANGED << currentFlow, currentStep, currentDialogElement, openDialogs,
                    dialogElements, created, currentSerial,
                    disabled, connected, device, transport, esploader, chip, baudRate,
                    boardDefs, selectedBoardId, releaseVersion, chipFamily,
                    bootloaderUrl, uf2FileUrl, binFileUrl, bootDriveHandle,
                    circuitpyDriveHandle, bootDriveName, serialPortName,
                    replSerialDevice, repl, reader, writer, fileCache,
                    tomlSettings, settingsFile, pc, root, totalSize, catalog,
                    versionAttr,
                    loop, teardown, portCalls, wait, urlAttrs, suspended,
                    inflight >>

\* the loop condition bytesWritten < totalSize fails
CopyDone ==
    /\ pc = "copy"
    /\ ~(bytesWritten < totalSize)
    /\ pc' = "copied"
    /\ last' = [last EXCEPT !.op = "close"]
    /\ UNCHANGED << currentFlow, currentStep, currentDialogElement, openDialogs,
                    dialogElements, created, currentSerial,
                    disabled, connected, device, transport, esploader, chip, baudRate,
                    boardDefs, selectedBoardId, releaseVersion, chipFamily,
                    bootloaderUrl, uf2FileUrl, binFileUrl, bootDriveHandle,
                    circuitpyDriveHandle, bootDriveName, serialPortName,
                    replSerialDevice, repl, reader, writer, fileCache,
                    tomlSettings, settingsFile, root, totalSize, bytesWritten,
                    writes,
                    catalog, versionAttr, loop, teardown, portCalls, wait,
                    urlAttrs, suspended, inflight >>

-----------------------------------------------------------------------------
(* The REPL connection, one transition per run between two awaits *)

\* what a REPL transition leaves alone
ReplRest ==
    << currentFlow, currentStep, currentDialogElement, openDialogs,
       dialogElements, created, currentSerial,
       disabled, connected, device, transport, esploader, chip, baudRate,
       boardDefs, selectedBoardId, releaseVersion, chipFamily,
       bootloaderUrl, uf2FileUrl, binFileUrl, bootDriveHandle,
       circuitpyDriveHandle, bootDriveName, serialPortName, fileCache,
       tomlSettings, settingsFile, pc, root, totalSize, bytesWritten, writes,
       catalog, versionAttr, wait, urlAttrs, suspended, inflight >>

Repl(who) ==
    [reader |-> reader, writer |-> writer,
     replSerialDevice |-> replSerialDevice,
     calls |-> portCalls, at |-> teardown[who]]

ReplCommit(who, c, op) ==
    /\ reader' = c.reader
    /\ writer' = c.writer
    /\ replSerialDevice' = c.replSerialDevice
    /\ portCalls' = c.calls
    /\ teardown' = [teardown EXCEPT ![who] = c.at]
    /\ last' = [last EXCEPT !.op = op]
    /\ UNCHANGED repl
    /\ UNCHANGED ReplRest

\* cpSerialConnectHandler from requestPort to the end of setupRepl: the port
\* is bound, _readSerialLoop runs to its read() and the writer is taken.  A
\* port that failed to open has no readable and no writable stream.
ReplSetup ==
    /\ repl = Null
    /\ \E port \in Ports, opened \in BOOLEAN :
          /\ replSerialDevice' = port
          /\ reader' = IF opened THEN port ELSE Null
          /\ writer' = IF opened THEN port ELSE Null
          /\ loop' = IF opened THEN "reading" ELSE "stopped"
    /\ repl' = "repl"
    /\ last' = [last EXCEPT !.op = "setupRepl"]
    /\ UNCHANGED << teardown, portCalls >>
    /\ UNCHANGED ReplRest

\* the port the user selects for a second connection
SecondPort == "portB"

\* cpSerialConnectHandler after its call of onReplDisconnected returned:
\* requestPort answers with another port, which is bound, opened and set up.
\* A read loop of the first connection that has not finished goes on; the
\* read() of the new loop stays pending and the handler is not used again.
ReplReconnect ==
    /\ repl # Null
    /\ teardown["handler"] = "done"
    /\ replSerialDevice # SecondPort
    /\ \E opened \in BOOLEAN :
          /\ replSerialDevice' = SecondPort
          /\ reader' = IF opened THEN SecondPort ELSE reader
          /\ writer' = IF opened THEN SecondPort ELSE writer
    /\ teardown' = [teardown EXCEPT !["handler"] = "returned"]
    /\ last' = [last EXCEPT !.op = "setupRepl"]
    /\ UNCHANGED << repl, loop, portCalls >>
    /\ UNCHANGED ReplRest

\* a connect handler calls onReplDisconnected, which runs to its first
\* await; reader.cancel() settles the read() the loop is waiting for
ReplDisconnect ==
    /\ repl # Null
    /\ teardown["handler"] = "none"
    /\ loop' = IF reader # Null /\ loop = "reading" THEN "woken" ELSE loop
    /\ \E releaseOk \in BOOLEAN :
          ReplCommit("handler",
                     onReplDisconnectedReader(Repl("handler"), releaseOk),
                     "onReplDisconnected")

\* the read() the loop is waiting for settles by itself: the port is gone
LoopReadSettles ==
    /\ loop = "reading"
    /\ loop' = "woken"
    /\ last' = [last EXCEPT !.op = "read"]
    /\ UNCHANGED << reader, writer, replSerialDevice, repl, teardown, portCalls >>
    /\ UNCHANGED ReplRest

\* _readSerialLoop resumes with done (or with the rejection, which the catch
\* handler of setupRepl receives): onReplDisconnected runs to its first await
LoopDone ==
    /\ loop = "woken"
    /\ loop' = "teardown"
    /\ \E releaseOk \in BOOLEAN :
          ReplCommit("loop",
                     onReplDisconnectedReader(Repl("loop"), releaseOk),
                     "readSerialLoop")

\* onReplDisconnected threw inside _readSerialLoop: the catch handler of
\* setupRepl calls it again
LoopCatch ==
    /\ loop = "teardown"
    /\ teardown["loop"] = "threw"
    /\ loop' = "catch"
    /\ \E releaseOk \in BOOLEAN :
          ReplCommit("loop",
                     onReplDisconnectedReader(Repl("loop"), releaseOk),
                     "catch")

\* the promise a call of onReplDisconnected awaits settles.  The read() a
\* cancel() settled resumes the loop before the promise cancel() returned
\* resumes its caller.
ReplResume ==
    \E who \in Callers :
       /\ teardown[who] \in {"cancel", "release", "close"}
       /\ (who = "handler" /\ teardown[who] = "cancel") => loop # "woken"
       /\ UNCHANGED loop
       /\ \E releaseOk \in BOOLEAN :
             ReplCommit(who, onReplDisconnectedResume(Repl(who), releaseOk),
                        "resume")

-----------------------------------------------------------------------------
(* The board definitions the page loads *)

DownloadsHost == "https://downloads.circuitpython.org/"

Release(version, uf2file, binfile) ==
    [version |-> version, uf2file |-> uf2file, binfile |-> binfile]

Uf2Release(version) ==
    Release(version, Url(DownloadsHost, "firmware.uf2"),
            Url(DownloadsHost, "firmware.bin"))

BinRelease(version) ==
    Release(version, NullUrl, Url(DownloadsHost, "firmware.bin"))

BoardDef(chipfamily, bootloader, releases) ==
    [chipfamily |-> chipfamily, bootloader |-> bootloader, releases |-> releases]

FeatherS2 ==
    BoardDef("esp32s2", Url(DownloadsHost, "tinyuf2.zip"),
             << Uf2Release(V900b1), Uf2Release(V820) >>)

Huzzah32 == BoardDef("esp32", NullUrl, << BinRelease(V820) >>)

\* a board whose bootloader is not an archive
FeatherS3 ==
    BoardDef("esp32s3", Url(DownloadsHost, "bootloader.bin"),
             << Uf2Release(V900) >>)

\* the page offers one board
MainCatalogs ==
    { [feather_s2 |-> FeatherS2],
      [huzzah32 |-> Huzzah32],
      [feather_s3 |-> FeatherS3] }

VersionPool == << V820, V900a2, V900b1, V900rc1, V900, V1000 >>

\* the release lists of n distinct versions of the pool, in every order
RECURSIVE ReleaseLists(_)
ReleaseLists(n) ==
    IF n = 0 THEN { << >> }
    ELSE UNION { { Append(l, Uf2Release(VersionPool[k])) :
                     k \in { j \in 1..Len(VersionPool) :
                               \A i \in 1..Len(l) : l[i].version # VersionPool[j] } }
                 : l \in ReleaseLists(n - 1) }

BoardLists == UNION { ReleaseLists(n) : n \in 1..MaxReleases }

OtherLists ==
    { << BinRelease(V900), BinRelease(V820) >>, << BinRelease(V900b1) >> }

\* two boards: board_a offers any list of the pool, board_b one of two lists
BoardCatalogs ==
    { [board_a |-> BoardDef("esp32s2", Url(DownloadsHost, "tinyuf2.zip"), la),
       board_b |-> BoardDef("esp32", NullUrl, lb)]
        : la \in BoardLists, lb \in OtherLists }

\* the values of the version attribute of the element; NoVersion: not set
VersionAttrs == { NoVersion, V820, V900 }

-----------------------------------------------------------------------------
(* Construction *)

InitLast ==
    [op |-> "init", step |-> 0, espBound |-> FALSE, replBound |-> FALSE,
     hit |-> FALSE, fetched |-> FALSE, blob |-> Null, fail |-> "none",
     cancel |-> FALSE, conn |-> "none", erase |-> "none", write |-> "none",
     arg |-> "none", reject |-> "none", close |-> "none", prev |-> "none",
     codec |-> "none", open |-> FALSE, ret |-> "none",
     settings |-> << >>, written |-> << >>, roundTrip |-> FALSE,
     threw |-> FALSE]

\* init(): every descriptor but those with preload: false gets its element,
\* which is stored in this.dialogElements
preloadDialogs ==
    /\ dialogElements = Dialogs \ NotPreloaded
    /\ created = [d \in Dialogs |-> IF d \in NotPreloaded THEN 0 ELSE 1]

\* the fields as the two constructors leave them
Constructed ==
    /\ currentFlow = Null
    /\ currentStep = 0
    /\ currentDialogElement = Null
    /\ currentSerial = 0
    /\ openDialogs = {}
    /\ preloadDialogs
    /\ disabled = {}
    /\ connected = DISCONNECTED
    /\ device = Null
    /\ transport = Null
    /\ esploader = Null
    /\ chip = Null
    /\ baudRate = ESP_ROM_BAUD
    /\ chipFamily = Null
    /\ bootloaderUrl = NullUrl
    /\ uf2FileUrl = NullUrl
    /\ binFileUrl = NullUrl
    /\ bootDriveHandle = Null
    /\ circuitpyDriveHandle = Null
    /\ bootDriveName = Null
    /\ serialPortName = Null
    /\ replSerialDevice = Null
    /\ repl = Null
    /\ reader = Null
    /\ writer = Null
    /\ fileCache = << >>
    /\ tomlSettings = Null
    /\ settingsFile = NoFile
    /\ root = "none"
    /\ loop = "none"
    /\ teardown = [c \in Callers |-> "none"]
    /\ portCalls = [cancel |-> 0, release |-> 0, close |-> 0]
    /\ wait = NoWait
    /\ urlAttrs = [attribute \in DOMAIN attrMap \cup {"chipfamily"} |->
                      IF attribute = "chipfamily" THEN Null ELSE NullUrl]
    /\ suspended = 0
    /\ inflight = NoDownload
    /\ last = InitLast

\* the board definitions are loaded, a single board is selected by default
\* and the version attribute, when set, is the requested version
connectedCallback(defs, version) ==
    /\ catalog = defs
    /\ versionAttr = version
    /\ boardDefs = defs
    /\ selectedBoardId = IF Cardinality(DOMAIN defs) = 1
                         THEN CHOOSE b \in DOMAIN defs : TRUE
                         ELSE Null
    /\ releaseVersion = version

NoCopy ==
    /\ totalSize = 0
    /\ bytesWritten = 0
    /\ writes = << >>

Init ==
    /\ Constructed
    /\ \E defs \in MainCatalogs : connectedCallback(defs, NoVersion)
    /\ pc = "idle"
    /\ NoCopy

InitClicks ==
    /\ Constructed
    /\ connectedCallback([huzzah32 |-> Huzzah32], NoVersion)
    /\ pc = "idle"
    /\ NoCopy

InitBoard ==
    /\ Constructed
    /\ \E defs \in BoardCatalogs, version \in VersionAttrs :
          connectedCallback(defs, version)
    /\ pc = "idle"
    /\ NoCopy

\* the sizes of the blob handed to the copy loop
BlobSizes ==
    { q * COPY_CHUNK_SIZE + r :
        q \in 0..MaxChunks, r \in {0, 1, 1000, COPY_CHUNK_SIZE - 1} }

\* downloadAndCopy has the blob and is about to enter its loop
InitCopy ==
    /\ Constructed
    /\ connectedCallback([feather_s2 |-> FeatherS2], NoVersion)
    /\ pc = "copy"
    /\ totalSize \in BlobSizes
    /\ bytesWritten = 0
    /\ writes = << >>

-----------------------------------------------------------------------------
(* Specifications *)

\* the widget driven by the user.  No button is enabled that would take the
\* cursor out of the flow, so InvokeUndefined is not among the disjuncts.
Next ==
    \/ ClickInstall
    \/ RunFlow
    \/ PreviousButton
    \/ NextButton
    \/ SkipErase
    \/ CloseDialog
    \/ DismissDialog
    \/ EspToolConnectHandler
    \/ CpSerialConnectHandler
    \/ BootDriveSelectHandler
    \/ CircuitpyDriveSelectHandler
    \/ SaveCredentials
    \/ ReadSerialLoopEnds
    \/ InvokeStep

Spec == Init /\ [][Next]_vars

\* the widget of a page that offers a board without native USB, driven by
\* a user who may click while stepCredentials waits for the settings
NextClicks ==
    \/ ClickInstall
    \/ RunFlow
    \/ PreviousButton
    \/ NextButton
    \/ SkipErase
    \/ CloseDialog
    \/ DismissDialog
    \/ EspToolConnectHandler
    \/ CpSerialConnectHandler
    \/ SaveCredentials
    \/ ReadSerialLoopEnds
    \/ StepWelcome
    \/ StepSerialConnect
    \/ StepConfirm
    \/ StepEraseAll
    \/ StepFlashBin
    \/ StepSetupRepl
    \/ StepCredentials
    \/ StepSuccess
    \/ StepCredentialsSuspends
    \/ StepCredentialsResumes

SpecClicks == InitClicks /\ [][NextClicks]_vars

\* the flow engine driven by calls of runFlow, nextStep and prevStep
NextNoAdvance ==
    \/ ClickInstall
    \/ RunFlow
    \/ NextStep
    \/ PrevStep
    \/ CloseDialog
    \/ DismissDialog
    \/ InvokeStep
    \/ InvokeUndefined

SpecNextPrev == Init /\ [][NextNoAdvance]_vars

\* the flow engine driven by calls of all four of its methods
NextEngine ==
    \/ RunFlowOtherTarget
    \/ ClickInstall
    \/ RunFlow
    \/ NextStep
    \/ PrevStep
    \/ AdvanceSteps
    \/ CloseDialog
    \/ DismissDialog
    \/ InvokeStep
    \/ InvokeUndefined

SpecEngine == Init /\ [][NextEngine]_vars

\* the bootloader adapter alone, called by a script of the page
NextTransport ==
    \/ EspConnect
    \/ EspDisconnect
    \/ ChangeBaudRate
    \/ SetBaudRateIfChipSupports
    \/ CloseDialog

SpecTransport == Init /\ [][NextTransport]_vars

\* the dialog registry alone, called by a script of the page
NextDialog ==
    \/ ShowDialog
    \/ ShowNotSupported
    \/ CloseDialogCall
    \/ DismissDialog

SpecDialog == Init /\ [][NextDialog]_vars

\* writeSettings over the REPL, from its statements to its return, one
\* transition per run between two awaits
WaitRest ==
    << currentFlow, currentStep, currentDialogElement, openDialogs,
       dialogElements, created, currentSerial,
       disabled, connected, device, transport, esploader, chip, baudRate,
       boardDefs, selectedBoardId, releaseVersion, chipFamily,
       bootloaderUrl, uf2FileUrl, binFileUrl, bootDriveHandle,
       circuitpyDriveHandle, bootDriveName, serialPortName, fileCache,
       tomlSettings, settingsFile, pc, root, totalSize, bytesWritten, writes,
       catalog, versionAttr, replSerialDevice, repl, reader, writer,
       loop, teardown, portCalls, urlAttrs, suspended, inflight >>

WaitStep(w, op) ==
    /\ wait' = w
    /\ last' = [last EXCEPT !.op = op]
    /\ UNCHANGED WaitRest

\* writeSettings up to the await of this.timeout(...): the statements are
\* sent, the device restarts, the timer is started and the callback runs
\* to its first await, of getDeviceHostInfo()
WaitBegins ==
    /\ Idle
    /\ repl # Null
    /\ wait.result # "pending"
    /\ \E settings \in {Form} :
          \E s \in {[Begin("writeSettings") EXCEPT !.last.settings = settings]} :
             \E r \in {writeSettings(s, settings, Env0)} :
                CommitWidget([r EXCEPT !.last.ret = "pending"])
    /\ UNCHANGED << urlAttrs, suspended, inflight >>
    /\ wait' = [pc |-> "poll", timer |-> "pending", ip |-> Null,
                info |-> "empty", polls |-> 0, result |-> "pending"]

\* the restarted device joins the network: the REPL has an address
DeviceReportsAddress ==
    /\ wait.pc # "none"
    /\ wait.ip = Null
    /\ WaitStep([wait EXCEPT !.ip = "ip"], "address")

\* deviceInfo = await this.getDeviceHostInfo(), then sleep(300) is awaited
WaitPoll ==
    /\ wait.pc = "poll"
    /\ wait.polls < MaxPolls
    /\ WaitStep([wait EXCEPT !.info = IF wait.ip = Null THEN "noip" ELSE "ip",
                              !.polls = @ + 1,
                              !.pc = "sleep"],
                "getDeviceHostInfo")

\* sleep(300) resolves and the loop condition is tested: with an address
\* the callback ends, and writeSettings returns if it is still waiting
WaitSleepEnds ==
    /\ wait.pc = "sleep"
    /\ WaitStep(IF wait.info = "ip"
                THEN [wait EXCEPT !.pc = "ended",
                                  !.result = IF @ = "pending" THEN "undefined"
                                             ELSE @]
                ELSE [wait EXCEPT !.pc = "poll"],
                "sleep")

\* sleep(ms) of timeout() resolves and nothing is thrown
TimeoutResolves(w) ==
    [w EXCEPT !.timer = "fired",
              !.result = IF @ = "pending" THEN "undefined" ELSE @]

\* sleep(ms) of timeout() resolves and throws: if writeSettings is still
\* waiting, its catch block returns null; the callback goes on polling
TimeoutRejects(w) ==
    [w EXCEPT !.timer = "fired",
              !.result = IF @ = "pending" THEN "null" ELSE @]

WaitTimeoutFires ==
    /\ wait.timer = "pending"
    /\ WaitStep(TimeoutRejects(wait), "timeout")

NextWait ==
    \/ ConnectRepl
    \/ WaitBegins
    \/ DeviceReportsAddress
    \/ WaitPoll
    \/ WaitSleepEnds
    \/ WaitTimeoutFires

\* timers fire and settled promises resume their awaits
SpecWait ==
    /\ Init
    /\ [][NextWait]_vars
    /\ WF_vars(WaitPoll)
    /\ WF_vars(WaitSleepEnds)
    /\ WF_vars(WaitTimeoutFires)

\* the filenames of the files the installer downloads
CacheNames == {"tinyuf2.zip", "firmware.uf2", "firmware.bin"}

\* the methods of the file cache called by a script of the page
AddCachedFile ==
    /\ Idle
    /\ \E filename \in CacheNames :
          \E s \in {[Begin("addCachedFile") EXCEPT !.last.arg = filename]} :
             \E r \in {addCachedFile(s, filename, filename)} : Commit(r)

RemoveCachedFile ==
    /\ Idle
    /\ \E filename \in CacheNames :
          \E s \in {[Begin("removeCachedFile") EXCEPT !.last.arg = filename]} :
             \E r \in {removeCachedFile(s, filename)} : Commit(r)

\* the file cache alone
NextCache == AddCachedFile \/ RemoveCachedFile

SpecCache == Init /\ [][NextCache]_vars

\* the menu of a page that sets attributes of the element
NextMenu ==
    \/ AttributeChanged
    \/ ChipfamilyAttribute
    \/ ClickInstall
    \/ CloseDialog
    \/ DismissDialog

SpecMenu == Init /\ [][NextMenu]_vars

\* the two credentials flows over a device that holds a settings file
NextCredentials ==
    \/ DeviceSettingsFile
    \/ ClickInstall
    \/ RunCredentialsFlow
    \/ PreviousButton
    \/ NextButton
    \/ CloseDialog
    \/ CircuitpyDriveSelectHandler
    \/ CpSerialConnectHandler
    \/ SaveCredentials
    \/ ReadSerialLoopEnds
    \/ StepWelcome
    \/ StepSelectCpyDrive
    \/ StepSetupRepl
    \/ StepCredentials
    \/ StepSuccess

SpecCredentials == Init /\ [][NextCredentials]_vars

\* the two flows over the drives of a board with native USB, the download of
\* stepCopyUf2 taking its time
InitRuns ==
    /\ Constructed
    /\ connectedCallback([feather_s2 |-> FeatherS2], NoVersion)
    /\ pc = "idle"
    /\ NoCopy

NextRuns ==
    \/ ClickInstall
    \/ RunDriveFlow
    \/ PreviousButton
    \/ NextButton
    \/ CloseDialog
    \/ DismissDialog
    \/ BootDriveSelectHandler
    \/ CircuitpyDriveSelectHandler
    \/ SaveCredentials
    \/ StepWelcome
    \/ StepSelectBootDrive
    \/ StepCopyUf2
    \/ StepCopyUf2Suspends
    \/ StepCopyUf2Resumes
    \/ StepSelectCpyDrive
    \/ StepCredentials
    \/ StepSuccess

SpecRuns == InitRuns /\ [][NextRuns]_vars

\* the REPL connection made a second time, await by await
NextReconnect ==
    \/ ReplSetup
    \/ ReplDisconnect
    \/ LoopReadSettles
    \/ LoopDone
    \/ LoopCatch
    \/ ReplResume
    \/ ReplReconnect

SpecReconnect == Init /\ [][NextReconnect]_vars

\* the settings codec alone
NextSettings ==
    \/ PickCircuitpyDrive
    \/ ConnectRepl
    \/ ReadSerialLoopEnds
    \/ WriteSettings
    \/ GetCurrentSettings
    \/ CloseDialog

SpecSettings == Init /\ [][NextSettings]_vars

\* the REPL connection alone, await by await
NextRepl ==
    \/ ReplSetup
    \/ ReplDisconnect
    \/ LoopReadSettles
    \/ LoopDone
    \/ LoopCatch
    \/ ReplResume

SpecRepl == Init /\ [][NextRepl]_vars

\* the image attributes and the board loader, over catalogs of one board
NextAttributes ==
    \/ AttributeChanged
    \/ ClickInstall
    \/ CloseDialog
    \/ DismissDialog

SpecAttributes == Init /\ [][NextAttributes]_vars

\* board selection alone, over catalogs of two boards
NextBoard ==
    \/ ClickInstall
    \/ SelectBoardHandler
    \/ CloseDialog
    \/ DismissDialog

SpecBoard == InitBoard /\ [][NextBoard]_vars

\* the copy loop; every write and the final test of the loop are performed
NextCopy == CopyChunk \/ CopyDone

SpecCopy == InitCopy /\ [][NextCopy]_vars /\ WF_vars(NextCopy)

-----------------------------------------------------------------------------
(* Properties of the flow engine *)

\* the last transition was the engine's call of steps[currentStep]
Invoked == last.op \in StepNames \cup {"undefined"}

\* C1: under runFlow, nextStep and prevStep alone, every step the engine
\* invokes is at an index i with 0 <= i < steps.length; steps[steps.length]
\* is never invoked.
C1_InvokedStepInRange ==
    Invoked => (0 <= last.step /\ last.step < Len(flows[currentFlow]))

\* C2: whichever of runFlow, nextStep, prevStep and advanceSteps(delta) were
\* called, the cursor satisfies 0 <= currentStep <= steps.length.
C2_CursorWithinFlow ==
    currentFlow # Null =>
        (0 <= currentStep /\ currentStep <= Len(flows[currentFlow]))

-----------------------------------------------------------------------------
(* Properties of the transport adapters and of the handlers *)

espBound == device # Null \/ transport # Null

replBound == replSerialDevice # Null

\* C3: the bootloader adapter (device, transport) and the REPL adapter
\* (replSerialDevice) never hold a serial device at the same time.
C3_AtMostOneAdapterBound == ~(espBound /\ replBound)

\* cpSerialConnectHandler took the port over from a bound bootloader adapter
C3_ReplTakesOver ==
    /\ last.op = "cpSerialConnectHandler"
    /\ last.espBound
    /\ replBound
    /\ ~espBound

\* C4: a data failure (failed download, archive member not found) inside
\* stepFlashBin, stepBootloader or stepCopyUf2 aborts the step: no nextStep
\* is performed and the cursor is where it was when the step started.
C4_DataFailureDoesNotAdvance ==
    (last.op \in {"stepFlashBin", "stepBootloader", "stepCopyUf2"}
        /\ last.fail # "none")
    => (currentStep = last.step /\ pc = "idle")

\* the adapter a connect handler is about holds no device
AdapterCleared ==
    IF last.op = "espToolConnectHandler" THEN ~espBound ELSE ~replBound

\* C5: a connectivity failure in a connect handler (port not opened, chip
\* family mismatch, connection lost) ends with the error dialog current, the
\* handler's adapter holding no device and the cursor where it was.
C5_ConnectFailureTearsDown ==
    (last.op \in {"espToolConnectHandler", "cpSerialConnectHandler"}
        /\ last.conn # "none")
    => /\ currentDialogElement = "error"
       /\ AdapterCleared
       /\ currentStep = last.step
       /\ pc = "idle"

\* C6: a handler whose picker the user dismissed shows no error dialog and
\* leaves the cursor where it was.
C6_DismissedPickerIsSilent ==
    last.cancel =>
        /\ ~IsOpen(openDialogs, "error")
        /\ currentStep = last.step
        /\ pc = "idle"

\* C7: downloadAndExtract with a URL whose filename is in the file cache
\* issues no fetch.
C7_CacheHitIssuesNoFetch == last.hit => ~last.fetched

-----------------------------------------------------------------------------
(* Properties of the copy loop *)

\* the bytes of the first n writes
RECURSIVE BytesOf(_)
BytesOf(n) == IF n = 0 THEN 0 ELSE BytesOf(n - 1) + writes[n].size

\* every chunk is at most COPY_CHUNK_SIZE bytes, is not empty and starts
\* where the chunk before it ended, the first one at 0
ChunksContiguous ==
    \A i \in 1..Len(writes) :
        /\ writes[i].size <= COPY_CHUNK_SIZE
        /\ writes[i].size > 0
        /\ writes[i].position = BytesOf(i - 1)

\* the offsets of the writes strictly increase
OffsetsIncrease ==
    \A i, j \in 1..Len(writes) :
        i < j => writes[i].position < writes[j].position

CopyExact ==
    /\ ChunksContiguous
    /\ OffsetsIncrease
    /\ bytesWritten = BytesOf(Len(writes))
    /\ bytesWritten <= totalSize
    /\ pc = "copied" => BytesOf(Len(writes)) = totalSize

\* C8: for every blob size the copy loop terminates having written exactly
\* totalSize bytes, in chunks of at most 64 KiB, each at the position equal
\* to the bytes written before it: offsets strictly increase, no two chunks
\* overlap and none leaves a gap.
C8_CopyWritesExactlyTotalSize == []CopyExact /\ <>(pc = "copied")

\* a blob that is not a multiple of the chunk size has been copied in
\* several chunks, the last one shorter
C8_CopiedWithShortLastChunk ==
    /\ pc = "copied"
    /\ Len(writes) >= 3
    /\ writes[Len(writes)].size < COPY_CHUNK_SIZE
    /\ writes[1].size = COPY_CHUNK_SIZE

-----------------------------------------------------------------------------
(* Properties of the board / release resolver *)

\* the last transition ran loadBoard(selectedBoardId) and showed the menu
BoardLoaded ==
    /\ last.op \in {"buttonClickHandler", "selectBoardHandler"}
    /\ currentDialogElement = "menu"
    /\ selectedBoardId \in DOMAIN catalog

\* the versions of a release list, as a set
Versions(releases) == { releases[i].version : i \in 1..Len(releases) }

\* the key of a version: its five fields, a version without suffix having
\* suffix "stable" and suffixVersion 0
KeyOf(version) ==
    << StrVal(version.major), StrVal(version.minor), StrVal(version.patch),
       IF version.suffix = << >> THEN StrVal(StrStable) ELSE StrVal(version.suffix),
       IF version.suffix = << >> THEN NumVal(0) ELSE StrVal(version.suffixVersion) >>

\* x before y in the tuple order: the first field that differs decides.  A
\* field is compared as the program's language compares the captured text.
RECURSIVE KeyLessFrom(_, _, _)
KeyLessFrom(x, y, k) ==
    IF k > 5 THEN FALSE
    ELSE IF JsLess(x[k], y[k]) THEN TRUE
    ELSE IF JsLess(y[k], x[k]) THEN FALSE
    ELSE KeyLessFrom(x, y, k + 1)

KeyLess(x, y) == KeyLessFrom(x, y, 1)

\* the release the default policy designates for a board of the catalog:
\* a release of the board that no other release of the board precedes
IsDefaultOf(version, boardId) ==
    /\ version \in Versions(catalog[boardId].releases)
    /\ \A other \in Versions(catalog[boardId].releases) :
          ~KeyLess(KeyOf(other), KeyOf(version))

\* C9: loadBoard selects the requested version when the board offers it and,
\* when no version was requested, the first release of the sorted list; the
\* choice depends only on the board's releases and the requested version,
\* whichever board was loaded before.
C9_LoadBoardSelectsRequestedOrDefault ==
    BoardLoaded =>
        /\ (versionAttr # NoVersion
               /\ versionAttr \in Versions(catalog[selectedBoardId].releases))
           => releaseVersion = versionAttr
        /\ versionAttr = NoVersion => IsDefaultOf(releaseVersion, selectedBoardId)

-----------------------------------------------------------------------------
(* Properties of the drive handlers and of the copy *)

\* C11: when the folder picked in circuitpyDriveSelectHandler has no
\* boot_out.txt, the handler leaves circuitpyDriveHandle as it was, calls no
\* nextStep and leaves the cursor where it was.
C11_FolderWithoutMarkerIsRejected ==
    [][(last'.op = "circuitpyDriveSelectHandler" /\ last'.reject = "marker")
         => /\ circuitpyDriveHandle' = circuitpyDriveHandle
            /\ currentStep' = currentStep
            /\ pc' = "idle"]_vars

\* a folder without boot_out.txt was refused while a CIRCUITPY drive picked
\* earlier is still held
C11_MarkerlessFolderRefused ==
    /\ last.op = "circuitpyDriveSelectHandler"
    /\ last.reject = "marker"
    /\ circuitpyDriveHandle = "CIRCUITPY"
    /\ currentFlow # Null
    /\ StepAt(State) = "stepSelectCpyDrive"

\* C20: when all bytes are written, stepCopyUf2 advances the flow by exactly
\* one step and throws nothing, whether writableStream.close() failed or
\* succeeded.
C20_CloseFailureStillAdvances ==
    (last.op = "stepCopyUf2" /\ last.close # "none")
    => /\ ~last.threw
       /\ currentStep = last.step + 1
       /\ pc = "step"

\* stepCopyUf2 went on to the next step after close() had failed
C20_AdvancedAfterCloseFailed ==
    /\ last.op = "stepCopyUf2"
    /\ last.close = "failed"
    /\ currentStep = last.step + 1
    /\ StepAt(State) = "stepSelectCpyDrive"

-----------------------------------------------------------------------------
(* Properties of runFlow and of the engine without a flow *)

\* C18: runFlow(flow) makes flow the current flow, sets the cursor to 0 and
\* invokes steps[0], whatever the flow and the cursor were; given an event
\* whose target id is not a flow, it changes neither and invokes no step.
C18_RunFlowStartsAtStepZero ==
    /\ []((last.op = "runFlow" /\ last.arg \in FlowIds)
            => /\ currentFlow = last.arg
               /\ currentStep = 0
               /\ pc = "step"
               /\ StepAt(State) = flows[last.arg][1])
    /\ [][(last'.op = "runFlow" /\ last'.arg \notin FlowIds)
            => /\ currentFlow' = currentFlow
               /\ currentStep' = currentStep
               /\ pc' = "idle"]_vars

\* runFlow was called while the cursor of an earlier flow was past step 0
C18_RestartedFromLaterStep ==
    /\ last.op = "runFlow"
    /\ last.arg \in FlowIds
    /\ last.step > 0
    /\ currentStep = 0

\* C19: while currentFlow is null, nextStep, prevStep and advanceSteps leave
\* the cursor as it is, invoke no step and throw nothing.
C19_NoFlowNoStep ==
    [][(currentFlow = Null
           /\ last'.op \in {"nextStep", "prevStep", "advanceSteps"})
         => /\ currentStep' = currentStep
            /\ currentFlow' = Null
            /\ pc' = "idle"
            /\ ~last'.threw]_vars

\* advanceSteps returned while no flow was current
C19_AdvanceStepsWithoutFlow ==
    /\ last.op = "advanceSteps"
    /\ currentFlow = Null
    /\ pc = "idle"

-----------------------------------------------------------------------------
(* Properties of the bootloader adapter *)

\* C12: after espDisconnect has completed on a bound transport the
\* connection state is DISCONNECTED and esploader, transport, device and
\* chip are all null.
C12_DisconnectReleasesAdapter ==
    (last.op = "espDisconnect" /\ last.espBound /\ ~last.threw)
    => /\ connected = DISCONNECTED
       /\ esploader = Null
       /\ transport = Null
       /\ device = Null
       /\ chip = Null

\* the error dialog is the current dialog and is open
ErrorShown(current, open) == current = "error" /\ IsOpen(open, "error")

\* C15 as stated: changeBaudRate(baud) while a transport is bound leaves
\* baudRate as it was, shows the error dialog and throws nothing; while no
\* transport is bound, a supported rate becomes baudRate.
C15_BoundTransportAlwaysShowsError ==
    [][last'.op = "changeBaudRate"
         => /\ ~last'.threw
            /\ IF transport # Null
               THEN /\ baudRate' = baudRate
                    /\ ErrorShown(currentDialogElement', openDialogs')
               ELSE last'.arg \in baudRates => baudRate' = last'.arg]_vars

\* C15: changeBaudRate(baud) with a rate of baudRates, while a transport is
\* bound, leaves baudRate as it was, shows the error dialog and throws
\* nothing, and while no transport is bound it sets baudRate to the rate;
\* with a rate that is not in baudRates it changes nothing and shows nothing.
C15_SupportedRateRejectedWhileBound ==
    [][last'.op = "changeBaudRate"
         => /\ ~last'.threw
            /\ IF last'.arg \in baudRates
               THEN IF transport # Null
                    THEN /\ baudRate' = baudRate
                         /\ ErrorShown(currentDialogElement', openDialogs')
                    ELSE baudRate' = last'.arg
               ELSE /\ baudRate' = baudRate
                    /\ currentDialogElement' = currentDialogElement
                    /\ openDialogs' = openDialogs]_vars

\* a supported rate other than the current one was refused while connected
C15_RateRefusedWhileBound ==
    /\ last.op = "changeBaudRate"
    /\ last.arg \in baudRates
    /\ last.arg # baudRate
    /\ transport # Null
    /\ currentDialogElement = "error"

-----------------------------------------------------------------------------
(* Properties of the dialog registry *)

\* C16: at most one dialog element is open at any time, whichever showDialog
\* and closeDialog calls were made: showDialog closes the current element
\* before it opens another.
C16_AtMostOneDialogOpen == Cardinality(openDialogs) <= 1

\* showDialog was called while another dialog was open, and only the new
\* one is open
C16_ShownOverOpenDialog ==
    /\ last.op = "showDialog"
    /\ last.prev \in Dialogs
    /\ last.prev # currentDialogElement
    /\ openDialogs = {Element(currentDialogElement, currentSerial)}

\* C17: for every descriptor of the registry, preloaded or not, at most one
\* element is ever created: every lookup after the first returns the
\* element the first one created.
C17_ElementCreatedAtMostOnce == \A d \in Dialogs : created[d] <= 1

-----------------------------------------------------------------------------
(* Properties of the REPL teardown *)

\* C13: onReplDisconnected swallows the failure of each of its three steps
\* (cancel the pending read, release the writer lock, close the port):
\* when the read loop of a connected REPL runs it, nothing is thrown and
\* reader, writer and replSerialDevice are all null afterwards.
C13_TeardownSwallowsEveryFailure ==
    last.op = "readSerialLoop"
    => /\ ~last.threw
       /\ reader = Null
       /\ writer = Null
       /\ replSerialDevice = Null

\* C14: for one connection, whichever way the cancelling call of
\* onReplDisconnected and the completion branch of _readSerialLoop
\* interleave, the teardown is performed once: replSerialDevice.close() is
\* never called a second time.
C14_PortClosedOnce == portCalls.close <= 1

-----------------------------------------------------------------------------
(* Properties of the file cache *)

\* C21: once stepSelectBootDrive or stepSetupRepl, the steps that read the
\* bootloader archive for its names, has completed, the file cache holds no
\* entry for the bootloader archive.
C21_ConsumedArchiveLeavesCache ==
    (last.op \in {"stepSelectBootDrive", "stepSetupRepl"} /\ ~last.threw)
    => ~InCache(fileCache, Filename(bootloaderUrl))

-----------------------------------------------------------------------------
(* Properties of the settings codec *)

\* the mapping the text of the settings file stands for
FileSettings ==
    IF settingsFile.exists /\ settingsFile.text # << >>
    THEN tomlParse(settingsFile.text)
    ELSE << >>

\* C22: when the REPL adapter is active (the port is open and has a writer),
\* getCurrentSettings returns the mapping parsed from the text of the
\* settings file of the device, which is the empty mapping only when the
\* file is absent or empty.
C22_ReplReadReturnsFileSettings ==
    (last.op = "getCurrentSettings" /\ last.codec = "repl" /\ last.open)
    => last.settings = FileSettings

\* C30: whenever getCurrentSettings or writeSettings takes the REPL branch,
\* the REPL port is bound and open.
C30_ReplBranchOnlyWhileConnected ==
    last.codec = "repl" => (last.open /\ replSerialDevice # Null)

-----------------------------------------------------------------------------
(* Properties of the wait for an address *)

\* C23, as stated: when an address was reported before the timeout fires,
\* writeSettings does not return through the timeout branch.
C23_AddressBeforeTimeoutAvoidsNull ==
    [][(wait.timer = "pending" /\ wait'.timer = "fired" /\ wait.ip # Null)
          => wait'.result # "null"]_vars

\* C23: the wait of writeSettings always ends.  While the device reports
\* no address the timeout fires and writeSettings returns null; when the
\* polling loop has read an address and finished its sleep before the
\* timeout fires, writeSettings returns without the timeout branch, and it
\* returns that way only after the loop has read an address.
C23_WaitAlwaysEnds ==
    /\ (wait.result = "pending") ~> (wait.result \in {"null", "undefined"})
    /\ []((wait.timer = "fired" /\ wait.ip = Null) => wait.result = "null")
    /\ []((wait.pc = "ended" /\ wait.timer = "pending")
            => wait.result = "undefined")
    /\ [](wait.result = "undefined" => (wait.info = "ip" /\ wait.pc = "ended"))

\* the timeout fired while no address was ever reported, and writeSettings
\* returned null while the callback goes on polling
C23_TimedOutWithoutAddress ==
    /\ wait.result = "null"
    /\ wait.ip = Null
    /\ wait.polls >= 2

-----------------------------------------------------------------------------
(* Properties of the image attributes *)

\* the field an attribute names
UrlField(attribute) ==
    CASE attribute = "bootloader" -> bootloaderUrl
      [] attribute = "uf2file" -> uf2FileUrl
      [] attribute = "binfile" -> binFileUrl

\* C24: after loadBoard, the url field of every image attribute that is set
\* is the mirror-rewritten value of the attribute, whatever the board
\* definition or the selected release supplies.
C24_AttributeOverridesCatalog ==
    BoardLoaded =>
        \A attribute \in DOMAIN attrMap :
           urlAttrs[attribute] # NullUrl
              => UrlField(attribute) = updateBinaryUrl(urlAttrs[attribute])

-----------------------------------------------------------------------------
(* Properties of the clicks taken while a step is suspended *)

\* C26: at most one step body is in flight: the engine calls a step function
\* only while no earlier step body is suspended at an await, whatever the
\* user clicks.
C26_OneStepBodyInFlight == pc = "step" => suspended = 0

-----------------------------------------------------------------------------
(* Properties of the erase step *)

\* C27: when eraseFlash fails in stepEraseAll the installer shows the error
\* dialog and stops: the engine is not about to call the next step, the
\* cursor is where it was and the error dialog is the current dialog.
C27_EraseFailureStopsFlow ==
    (last.op = "stepEraseAll" /\ last.fail = "erase")
        => /\ pc = "idle"
           /\ currentStep = last.step
           /\ currentDialogElement = "error"

-----------------------------------------------------------------------------
(* Properties of Skip Erase *)

\* in every flow, stepConfirm is immediately followed by stepEraseAll, which
\* is not the last step
EraseFollowsConfirm ==
    \A flowId \in FlowIds :
       \A i \in 1..Len(flows[flowId]) :
          flows[flowId][i] = "stepConfirm"
             => /\ i + 2 <= Len(flows[flowId])
                /\ flows[flowId][i + 1] = "stepEraseAll"

\* C28: stepConfirm is immediately followed by stepEraseAll in every flow
\* that has it, and Skip Erase (advanceSteps(2)) makes the engine call the
\* step right after stepEraseAll: the cursor is inside the flow, two steps
\* after stepConfirm and one after stepEraseAll, and eraseFlash was not
\* called.
C28_SkipEraseInvokesStepAfterErase ==
    /\ EraseFollowsConfirm
    /\ last.op = "advanceSteps"
          => /\ pc = "step"
             /\ currentStep = last.step + 2
             /\ currentStep < StepsLength(State)
             /\ flows[currentFlow][last.step + 1] = "stepConfirm"
             /\ flows[currentFlow][currentStep] = "stepEraseAll"
             /\ StepAt(State) \notin {"stepEraseAll", Undefined}
             /\ last.erase = "none"

\* Skip Erase was chosen and the engine is about to call the flashing step
C28_SkippedToFlashingStep ==
    /\ last.op = "advanceSteps"
    /\ pc = "step"
    /\ StepAt(State) \in {"stepBootloader", "stepFlashBin"}

-----------------------------------------------------------------------------
(* Properties of the flashing operations *)

\* C29: eraseFlash and writeFlash are called only while the bootloader
\* connection state is CONNECTED.
C29_FlashOnlyWhileConnected ==
    /\ last.erase \in {"none", CONNECTED}
    /\ last.write \in {"none", CONNECTED}

-----------------------------------------------------------------------------
(* Properties of the file cache *)

\* the entries of a cache with another filename, in their order
RECURSIVE Without(_, _)
Without(cache, filename) ==
    IF cache = << >> THEN << >>
    ELSE IF Head(cache).filename = filename THEN Without(Tail(cache), filename)
    ELSE << Head(cache) >> \o Without(Tail(cache), filename)

\* C40: after removeCachedFile(name) the cache holds no entry with that
\* filename, whatever it held, and the other entries are unchanged and in
\* their order.
C40_RemoveCachedFileRemovesAll ==
    [][last'.op = "removeCachedFile"
          => fileCache' = Without(fileCache, last'.arg)]_vars

-----------------------------------------------------------------------------
(* Properties of the menu *)

\* C39: hasNativeUsb() is false exactly when chipFamily is unset, "esp32" or
\* "esp32c3", and true for every other chip family.
C39_NativeUsbUnlessEsp32OrC3 ==
    hasNativeUsb(State) = (chipFamily \notin {Null, "", "esp32", "esp32c3"})


\* C37: the menu never offers two flows with the same label: the two full
\* installs are not both enabled, exactly one of the two credentials flows
\* is, and so at least one flow is enabled, whatever the chip family and
\* the urls.
C37_MenuLabelsDistinct ==
    /\ \A f, g \in EnabledFlows(State) : f # g => flowLabels[f] # flowLabels[g]
    /\ ~(isEnabled(State, "uf2FullProgram") /\ isEnabled(State, "binFullProgram"))
    /\ isEnabled(State, "credentialsOnlyRepl") # isEnabled(State, "credentialsOnlyDrive")
    /\ enabledFlowCount(State) > 0

\* the menu is shown for a chip with native USB and all three urls
C37_MenuOfNativeUsbWithAllUrls ==
    /\ BoardLoaded
    /\ hasNativeUsb(State)
    /\ bootloaderUrl # NullUrl
    /\ uf2FileUrl # NullUrl
    /\ binFileUrl # NullUrl

-----------------------------------------------------------------------------
(* Properties of the numeric order of releases *)

\* major, minor and patch of a version as numbers
NumericKey(version) ==
    << StrToNumber(version.major), StrToNumber(version.minor),
       StrToNumber(version.patch) >>

\* x before y, the first of the three numbers that differs deciding
NumericLess(x, y) ==
    \E k \in 1..3 : /\ x[k] < y[k]
                    /\ \A j \in 1..(k - 1) : x[j] = y[j]

\* C38: sortReleases orders major, minor and patch by their numeric value
\* (10.0.0 after 9.0.0), and the default release of a board is one that no
\* release of the board precedes in that order.
C38_SortReleasesNumeric ==
    BoardLoaded =>
        LET sorted == boardDefs[selectedBoardId].releases
        IN  /\ \A i \in 1..(Len(sorted) - 1) :
                  ~NumericLess(NumericKey(sorted[i + 1].version),
                               NumericKey(sorted[i].version))
            /\ versionAttr = NoVersion
                  => \A other \in Versions(catalog[selectedBoardId].releases) :
                        ~NumericLess(NumericKey(other), NumericKey(releaseVersion))

-----------------------------------------------------------------------------
(* Properties of the urls of the loaded board *)

\* the release of the loaded board that loadBoard selected
SelectedRelease ==
    LET releases == catalog[selectedBoardId].releases
    IN  releases[CHOOSE i \in 1..Len(releases) :
                    releases[i].version = releaseVersion]

\* C36: after loadBoard(b), with no url attribute set, the three urls are
\* the mirror urls of b's definition and of b's selected release, and null
\* where b supplies none, whichever boards were loaded before.
C36_UrlsAreThoseOfLoadedBoard ==
    (BoardLoaded /\ \A attribute \in DOMAIN attrMap : urlAttrs[attribute] = NullUrl)
        => /\ bootloaderUrl = updateBinaryUrl(catalog[selectedBoardId].bootloader)
           /\ uf2FileUrl = updateBinaryUrl(SelectedRelease.uf2file)
           /\ binFileUrl = updateBinaryUrl(SelectedRelease.binfile)

-----------------------------------------------------------------------------
(* Properties of the flows driven by the user *)

\* C35: when every user action is processed to its end before the next one
\* starts, the cursor stays below steps.length in each flow and the engine
\* never calls an undefined step; the last step does not advance.
C35_CursorBelowFlowLength ==
    currentFlow # Null
        => /\ currentStep < StepsLength(State)
           /\ pc = "step" => StepAt(State) # Undefined
           /\ last.op = "stepSuccess" => pc = "idle"

\* the last step of a flow has run and shows its dialog
C35_LastStepShown ==
    /\ last.op = "stepSuccess"
    /\ currentStep = StepsLength(State) - 1
    /\ currentDialogElement = "success"

-----------------------------------------------------------------------------
(* Properties of the bootloader connection state *)

\* C34: in every state, CONNECTED implies that device, transport and
\* esploader of the bootloader adapter are bound.
C34_ConnectedImpliesBound ==
    connected = CONNECTED
        => (device # Null /\ transport # Null /\ esploader # Null)


\* espToolConnectHandler has connected the bootloader
C34_BootloaderConnected ==
    /\ last.op = "espToolConnectHandler"
    /\ connected = CONNECTED
    /\ transport # Null


-----------------------------------------------------------------------------
(* Properties of the credentials step *)

\* the entries of a settings file that are not fields of the credentials form
OtherSettings(file) ==
    LET settings == IF file.exists /\ file.text # << >>
                    THEN tomlParse(file.text) ELSE << >>
        FormNames == {SettingNames[i] : i \in 1..Len(SettingNames)}
    IN  [name \in DOMAIN settings \ FormNames |-> settings[name]]

\* C31: saveCredentials, which follows stepCredentials, leaves every entry
\* of the settings file of the device that is not one of the four form
\* fields in the file with its value, over the REPL and over the directory
\* handle.
C31_SaveCredentialsKeepsOtherSettings ==
    [][last'.op = "saveCredentials"
       => \A name \in DOMAIN OtherSettings(settingsFile) :
             /\ name \in DOMAIN OtherSettings(settingsFile')
             /\ OtherSettings(settingsFile')[name]
                   = OtherSettings(settingsFile)[name]]_vars


-----------------------------------------------------------------------------
(* Properties of a download that outlives its run *)

\* C32: when the dialog was closed and runFlow started another run while
\* the download of stepCopyUf2 was in flight, the end of that download
\* leaves currentStep as it is and calls no step of the new run.
C32_EarlierRunLeavesLaterRunAlone ==
    [][(inflight.step = "stepCopyUf2" /\ inflight.superseded
          /\ inflight' = NoDownload)
       => (currentStep' = currentStep /\ pc' # "step")]_vars

-----------------------------------------------------------------------------
(* Properties of a teardown that outlives its connection *)

\* C33: once cpSerialConnectHandler has bound the newly selected port, the
\* onReplDisconnected of the read loop of the connection before neither
\* closes that port nor resets replSerialDevice, reader or writer.
C33_OldTeardownLeavesNewConnectionAlone ==
    [][(replSerialDevice = SecondPort /\ teardown'["loop"] # teardown["loop"])
       => /\ replSerialDevice' = SecondPort
          /\ reader' = reader
          /\ writer' = writer
          /\ portCalls'.close = portCalls.close]_vars

=============================================================================
